---- MODULE Spec2Model ----
(***************************************************************************)
(* Control-protocol engine of the clawde SDK.                              *)
(*                                                                         *)
(* The repository carries two generations of the engine side by side:      *)
(*   H  Client (client.go) + QueryHandler + SubprocessTransport (subprocess *)
(*      .go) + Stream built over (msgCh, errCh);                           *)
(*   Q  Query (query.go) with the pending-request registry and             *)
(*      sendControlRequest, closed by Query.Close.                         *)
(* SpecH is the state machine of generation H, SpecQ that of generation Q. *)
(* Both run over the same variable tuple; the variables of the other       *)
(* generation keep their initial value.                                    *)
(***************************************************************************)
EXTENDS Integers, Sequences, FiniteSets, TLC

(* ------------------------------ bounds --------------------------------- *)
\* frames the Agent writes to its stdout during one run
MaxFrames == 3
\* capacity of SubprocessTransport.msgCh (100 in the source, scaled down)
TransportBuf == 1
\* capacity of QueryHandler.msgCh / Query.msgCh (100 in the source)
SessionBuf == 1
\* capacity of the error channels (10 in the source)
ErrorBuf == 1
\* prompts the application sends during one run
MaxPrompts == 1
\* concurrent sendControlRequest calls on one Query
MaxCalls == 2
\* Query.Close calls made on one Query
MaxCloses == 2
\* frames the Agent sends to a Query during one run
MaxQFrames == 2
\* control requests the application sends through one Query
MaxCtl == 3
\* hook matchers registered for one event
MaxMatchers == 2

\* Write calls of one caller, and payload bytes of one frame
MaxWrites == 2
FrameLen == 2

\* calls of Start on one transport; stdout and stderr lines of one child
MaxStarts == 2
MaxLines == 1
MaxStderr == 1

\* messages and stream events of one accumulation
MaxMessages == 2
MaxEvents == 5

\* lines of one parsed conversation
MaxScript == 2

\* calls of Connect on one client
MaxConnects == 2

\* lines the Agent prints to a routing Query; errors the transport reports
MaxRouteFrames == 3
MaxRouteErrs == 2

\* Query calls on one connection; room in its session channel
MaxSessions == 3
SessionDepth == 2

\* lines the Agent prints to a handler whose error channel is not read
MaxProgFrames == 4

\* largest index a stray content_block_delta carries
MaxBlocks == 2

(* ------------------------------ values --------------------------------- *)
None == "none"

\* request id QueryHandler.Initialize generates ("init_<nanos>")
InitId == "init_1"

\* an inbound or outbound frame; ids and payloads are strings
Frame(t, i, s, p) == [type |-> t, id |-> i, sub |-> s, pay |-> p]
NoFrame == Frame(None, None, None, None)

\* subtypes of an inbound control_request: the four the dispatcher knows, one
\* it does not, and an inner request that is not a JSON object
KnownSubtypes == {"initialize", "can_use_tool", "hook_callback", "mcp_message"}
ReqSubtypes == KnownSubtypes \cup {"unknown", "badinner"}

\* what a user callback may hand back, per subtype
CallbackResults(sub) ==
    CASE sub = "can_use_tool"  -> {"allow", "deny"}
      [] sub = "hook_callback" -> {"continue", "block"}
      [] sub = "mcp_message"   -> {"result", "error"}
      [] OTHER                 -> {}

\* frames whose top-level type makes them conversation messages
ConvTypes == {"assistant", "result"}

IsPrefix(s, t) == Len(s) <= Len(t) /\ SubSeq(t, 1, Len(s)) = s

(* ----------------------------- variables ------------------------------- *)
VARIABLES
    ctxDone,     \* the caller's context passed to Connect/Query is cancelled
    client,      \* Client: pc of Connect, connected
    transport,   \* SubprocessTransport: closed, msgCh, errCh, child, pipes
    handler,     \* QueryHandler: closed, initRequestID, channels
    router,      \* QueryHandler.processLoop: pc and the value it holds
    stream,      \* Stream: current, err, done, result (+ delivery history)
    stdin,       \* every line the SDK wrote to the child's stdin, in order
    emitted,     \* number of frames the Agent has written to stdout
    recvLog,     \* conversation messages the router parsed, in receipt order
    handled,     \* control requests whose handler has returned
    taken,       \* number of messages received from the session channel
    prompts,     \* number of Query calls made by the application
    lastCall,    \* outcome of the application's last Query call
    stalled,     \* the router has been blocked on a full session channel
    respSeen,    \* request ids of the control responses the router has handled
    routed,      \* number of frames the router has taken from the transport
    q,           \* generation Q: Query, its registry, callers and closers
    cb,          \* one hook_callback / can_use_tool / mcp_message being dispatched
    wr,          \* SubprocessTransport on its own: Write under the mutex; the lifecycle
    px           \* the parser and the accumulator: an input and what they make of it

vars == <<ctxDone, client, transport, handler, router, stream, stdin, emitted,
          recvLog, handled, taken, prompts, lastCall, stalled, respSeen, routed, q, cb, wr, px>>

hvars == <<ctxDone, client, transport, handler, router, stream, stdin, emitted,
           recvLog, handled, taken, prompts, lastCall, stalled, respSeen,
           routed, cb, wr, px>>

\* the variables of the two engines
evars == <<ctxDone, client, transport, handler, router, stream, stdin, emitted,
           recvLog, handled, taken, prompts, lastCall, stalled, respSeen,
           routed, q>>

(* ======================= generation H: the state ======================= *)
ClientInit == [pc |-> "new", connected |-> FALSE]

TransportInit ==
    [closed |-> FALSE, msgCh |-> <<>>, msgClosed |-> FALSE, errCh |-> <<>>,
     child |-> "none", line |-> <<>>]

HandlerInit ==
    [closed |-> FALSE, initRequestID |-> "", initResponseCh |-> <<>>,
     msgCh |-> <<>>, msgClosed |-> FALSE, errCh |-> <<>>]

RouterInit == [pc |-> "off", hold |-> NoFrame, next |-> None]

StreamInit ==
    [active |-> FALSE, done |-> FALSE, err |-> None, current |-> NoFrame,
     result |-> NoFrame, delivered |-> <<>>, lastNext |-> None,
     sid |-> 0, start |-> 0]

\* no dispatch in progress
CbInit == [pc |-> "off"]

\* no Write call made
WrInit == [pc |-> "off"]

\* nothing being parsed
PxInit == [pc |-> "off"]

(* =========================== the Agent ================================= *)
\* lines the Agent may print: conversation frames, a line on which
\* json.Unmarshal or ParseMessage fails ("malformed"), control requests
\* (request_id = serial number of the line), control responses and a cancel
AgentFrames(n) ==
    {Frame(t, n, None, None) :
        t \in ConvTypes \cup {"malformed", "control_cancel_request"}}
    \cup {Frame("control_request", n, s, None) : s \in ReqSubtypes \cup {"badenvelope"}}
    \cup {Frame("control_response", "", "success", n)}
    \cup {Frame("control_response", i, "success", n) :
            i \in {f.id : f \in {g \in {stdin[k] : k \in 1..Len(stdin)} :
                                   g.type = "control_request"}}}

(* ===================== SubprocessTransport ============================= *)
\* Write: fails after Close; the pipe write itself fails once the child is gone
WriteFails == transport.closed \/ transport.child # "alive"

\* readLoop: ReadSlice returns the next line the Agent printed
ReadLoop ==
    /\ transport.child = "alive"
    /\ ~transport.closed
    /\ transport.line = <<>>
    /\ emitted < MaxFrames
    /\ \E f \in AgentFrames(ToString(emitted + 1)) :
          transport' = [transport EXCEPT !.line = <<f>>]
    /\ emitted' = emitted + 1
    /\ UNCHANGED <<ctxDone, client, handler, router, stream, stdin, recvLog,
                   handled, taken, prompts, lastCall, stalled, respSeen, routed, q, cb, wr, px>>

\* sendLine: the line goes into msgCh, blocking while the channel is full;
\* once doneCh is closed the line is given up and readLoop returns
SendLine ==
    /\ transport.line # <<>>
    /\ ~transport.msgClosed
    /\ \/ /\ Len(transport.msgCh) < TransportBuf
          /\ transport' = [transport EXCEPT !.msgCh = @ \o transport.line,
                                            !.line = <<>>]
       \/ /\ transport.closed
          /\ transport' = [transport EXCEPT !.line = <<>>]
    /\ UNCHANGED <<ctxDone, client, handler, router, stream, stdin, emitted,
                   recvLog, handled, taken, prompts, lastCall, stalled, respSeen, routed, q, cb, wr, px>>

\* waitLoop: the child has exited; forward a ProcessError unless done wins the
\* select, then close msgCh
WaitLoop ==
    /\ transport.child = "exited"
    /\ ~transport.msgClosed
    /\ \/ /\ Len(transport.errCh) < ErrorBuf
          /\ transport' = [transport EXCEPT !.errCh = Append(@, "ProcessError"),
                                            !.msgClosed = TRUE]
       \/ /\ transport.closed
          /\ transport' = [transport EXCEPT !.msgClosed = TRUE]
    /\ UNCHANGED <<ctxDone, client, handler, router, stream, stdin, emitted,
                   recvLog, handled, taken, prompts, lastCall, stalled, respSeen, routed, q, cb, wr, px>>

\* Close: idempotent under the closed flag; closes doneCh, stdin, kills child
TransportClose(t) ==
    IF t.closed THEN t
    ELSE [t EXCEPT !.closed = TRUE,
                   !.child = IF @ = "alive" THEN "exited" ELSE @]

(* ================= QueryHandler: the router (processLoop) ============== *)
RouterAt(pc) == [pc |-> pc, hold |-> NoFrame, next |-> None]

\* return from processLoop: the deferred close(q.msgCh) runs
RouterExit ==
    /\ router' = RouterAt("exited")
    /\ handler' = [handler EXCEPT !.msgClosed = TRUE]

\* q.errCh <- e: a blocking send; the router continues at nxt once it is done
PushErr(e, nxt) ==
    IF Len(handler.errCh) < ErrorBuf
    THEN /\ router' = RouterAt(nxt)
         /\ handler' = [handler EXCEPT !.errCh = Append(@, e),
                                       !.msgClosed = (nxt = "exited") \/ @]
    ELSE /\ router' = [pc |-> "sendErr", hold |-> Frame("error", None, e, None), next |-> nxt]
         /\ UNCHANGED handler

\* a pipe that hands the newest line to the child first
WrittenAhead(lines, l) == <<l>> \o lines
\* t.stdin.Write(data): the line follows everything written before it
Written(lines, l) == Append(lines, l)

\* transport.Write(respJSON) at the end of handleControlRequest
WriteResponse(req, payload) ==
    IF WriteFails
    THEN /\ PushErr("WriteError", "idle")
         /\ UNCHANGED stdin
    ELSE /\ stdin' = Written(stdin, Frame("control_response", req.id, "success", payload))
         /\ router' = RouterAt("idle")
         /\ UNCHANGED handler

\* parseControlRequest: the typed inner request, or an error
parseControlRequest(req) ==
    IF req.sub \in KnownSubtypes THEN req.sub
    ELSE IF req.sub = "badinner" THEN "ParseError"
    ELSE "ProtocolError"

\* handleControlRequest up to the point where user code is entered
handleControlRequest(req) ==
    IF req.sub = "badenvelope"
    THEN /\ PushErr("ParseError", "idle")
         /\ handled' = handled \cup {req}
         /\ UNCHANGED stdin
    ELSE IF parseControlRequest(req) \notin KnownSubtypes
    THEN /\ PushErr(parseControlRequest(req), "idle")
         /\ handled' = handled \cup {req}
         /\ UNCHANGED stdin
    ELSE IF req.sub = "initialize"
    THEN /\ WriteResponse(req, "success:true")
         /\ handled' = handled \cup {req}
    ELSE /\ router' = [pc |-> "callback", hold |-> req, next |-> None]
         /\ UNCHANGED <<handler, stdin, handled>>

\* handleControlResponse: the init response channel takes a reply whose id
\* equals the stored initRequestID (non-blocking send, capacity 1)
handleControlResponse(f) ==
    /\ handler' =
          IF f.id = handler.initRequestID /\ Len(handler.initResponseCh) < 1
          THEN [handler EXCEPT !.initResponseCh = Append(@, f.pay)]
          ELSE handler
    /\ router' = RouterAt("idle")

\* a router that gives the message up when the session channel is full
SendMsgOrDrop(msg) ==
    /\ handler' = IF Len(handler.msgCh) < SessionBuf
                  THEN [handler EXCEPT !.msgCh = Append(@, msg)] ELSE handler
    /\ router' = RouterAt("idle")
    /\ UNCHANGED stalled

\* q.msgCh <- msg inside a select with ctx.Done and doneCh
SendMsg(msg) ==
    IF Len(handler.msgCh) < SessionBuf /\ ~ctxDone /\ ~handler.closed
    THEN /\ handler' = [handler EXCEPT !.msgCh = Append(@, msg)]
         /\ router' = RouterAt("idle")
         /\ UNCHANGED stalled
    ELSE /\ router' = [pc |-> "sendMsg", hold |-> msg, next |-> None]
         /\ stalled' = (stalled \/ Len(handler.msgCh) >= SessionBuf)
         /\ UNCHANGED handler

\* case raw, ok := <-q.transport.Messages()
RouterRecv ==
    /\ router.pc = "idle"
    /\ transport.msgCh # <<>>
    /\ LET f == Head(transport.msgCh) IN
       /\ transport' = [transport EXCEPT !.msgCh = Tail(@)]
       /\ CASE f.type = "malformed" ->
                 /\ PushErr("ParseError", "idle")
                 /\ UNCHANGED <<stdin, handled, recvLog, stalled, respSeen>>
            [] f.type = "control_request" ->
                 /\ handleControlRequest(f)
                 /\ UNCHANGED <<recvLog, stalled, respSeen>>
            [] f.type = "control_response" ->
                 /\ handleControlResponse(f)
                 /\ respSeen' = respSeen \cup {f.id}
                 /\ UNCHANGED <<stdin, handled, recvLog, stalled>>
            [] f.type = "control_cancel_request" ->
                 /\ UNCHANGED <<router, handler, stdin, handled, recvLog, stalled, respSeen>>
            [] OTHER ->
                 /\ recvLog' = Append(recvLog, f)
                 /\ SendMsg(f)
                 /\ UNCHANGED <<stdin, handled, respSeen>>
    /\ routed' = routed + 1
    /\ UNCHANGED <<ctxDone, client, stream, emitted, taken, prompts, lastCall, q, cb, wr, px>>

\* the inbound queue is closed and drained: processLoop returns
RouterRecvClosed ==
    /\ router.pc = "idle"
    /\ transport.msgCh = <<>>
    /\ transport.msgClosed
    /\ RouterExit
    /\ UNCHANGED <<ctxDone, client, transport, stream, stdin, emitted, recvLog,
                   handled, taken, prompts, lastCall, stalled, respSeen, routed, q, cb, wr, px>>

\* case <-ctx.Done(): q.errCh <- ctx.Err(); return
RouterCtxDone ==
    /\ router.pc = "idle"
    /\ ctxDone
    /\ PushErr("Canceled", "exited")
    /\ UNCHANGED <<ctxDone, client, transport, stream, stdin, emitted, recvLog,
                   handled, taken, prompts, lastCall, stalled, respSeen, routed, q, cb, wr, px>>

\* case <-q.doneCh: return
RouterDone ==
    /\ router.pc = "idle"
    /\ handler.closed
    /\ RouterExit
    /\ UNCHANGED <<ctxDone, client, transport, stream, stdin, emitted, recvLog,
                   handled, taken, prompts, lastCall, stalled, respSeen, routed, q, cb, wr, px>>

\* case err, ok := <-q.transport.Errors()
RouterTransportErr ==
    /\ router.pc = "idle"
    /\ transport.errCh # <<>>
    /\ transport' = [transport EXCEPT !.errCh = Tail(@)]
    /\ PushErr(Head(transport.errCh), "idle")
    /\ UNCHANGED <<ctxDone, client, stream, stdin, emitted, recvLog, handled,
                   taken, prompts, lastCall, stalled, respSeen, routed, q, cb, wr, px>>

\* a send on q.errCh that found the channel full completes
RouterSendErr ==
    /\ router.pc = "sendErr"
    /\ Len(handler.errCh) < ErrorBuf
    /\ router' = RouterAt(router.next)
    /\ handler' = [handler EXCEPT !.errCh = Append(@, router.hold.sub),
                                  !.msgClosed = (router.next = "exited") \/ @]
    /\ UNCHANGED <<ctxDone, client, transport, stream, stdin, emitted, recvLog,
                   handled, taken, prompts, lastCall, stalled, respSeen, routed, q, cb, wr, px>>

\* the select around q.msgCh <- msg: the send completes ...
RouterSendMsg ==
    /\ router.pc = "sendMsg"
    /\ Len(handler.msgCh) < SessionBuf
    /\ handler' = [handler EXCEPT !.msgCh = Append(@, router.hold)]
    /\ router' = RouterAt("idle")
    /\ UNCHANGED <<ctxDone, client, transport, stream, stdin, emitted, recvLog,
                   handled, taken, prompts, lastCall, stalled, respSeen, routed, q, cb, wr, px>>

\* ... or ctx.Done / doneCh wins and processLoop returns with the message
RouterSendAbort ==
    /\ router.pc = "sendMsg"
    /\ ctxDone \/ handler.closed
    /\ RouterExit
    /\ UNCHANGED <<ctxDone, client, transport, stream, stdin, emitted, recvLog,
                   handled, taken, prompts, lastCall, stalled, respSeen, routed, q, cb, wr, px>>

\* the user callback (permission decider, hook, tool handler) returns r and
\* handleControlRequest writes the response
CallbackReturn ==
    /\ router.pc = "callback"
    /\ \E r \in CallbackResults(router.hold.sub) :
          WriteResponse(router.hold, r)
    /\ handled' = handled \cup {router.hold}
    /\ UNCHANGED <<ctxDone, client, transport, stream, emitted, recvLog, taken,
                   prompts, lastCall, stalled, respSeen, routed, q, cb, wr, px>>

(* ============================ Client =================================== *)
\* Connect holds c.mu from entry to return
Connecting == client.pc \in {"initBuild", "initWrite", "initWait"}

\* Connect fails: c.transport.Close(); the error is returned, connected stays false
ConnectFail ==
    /\ client' = [client EXCEPT !.pc = "failed"]
    /\ transport' = TransportClose(transport)

\* Connect: transport.Start spawns the child and its reader tasks, query.Start
\* spawns processLoop; with no CLI on the host Start fails
ConnectStart ==
    /\ client.pc = "new"
    /\ ~client.connected
    /\ \/ /\ client' = [client EXCEPT !.pc = "initBuild"]
          /\ transport' = [transport EXCEPT !.child = IF ctxDone THEN "exited" ELSE "alive"]
          /\ router' = RouterAt("idle")
       \/ /\ client' = [client EXCEPT !.pc = "failed"]
          /\ UNCHANGED <<transport, router>>
    /\ UNCHANGED <<ctxDone, handler, stream, stdin, emitted, recvLog, handled,
                   taken, prompts, lastCall, stalled, respSeen, routed, q, cb, wr, px>>

\* Initialize: q.initRequestID = fmt.Sprintf("init_%d", ...) under q.mu
InitializeSetId ==
    /\ client.pc = "initBuild"
    /\ handler' = [handler EXCEPT !.initRequestID = InitId]
    /\ client' = [client EXCEPT !.pc = "initWrite"]
    /\ UNCHANGED <<ctxDone, transport, router, stream, stdin, emitted, recvLog,
                   handled, taken, prompts, lastCall, stalled, respSeen, routed, q, cb, wr, px>>

\* Initialize: q.transport.Write(data) of the initialize control request
InitializeWrite ==
    /\ client.pc = "initWrite"
    /\ IF WriteFails
       THEN /\ ConnectFail
            /\ UNCHANGED stdin
       ELSE /\ stdin' = Append(stdin, Frame("control_request", handler.initRequestID,
                                            "initialize", None))
            /\ client' = [client EXCEPT !.pc = "initWait"]
            /\ UNCHANGED transport
    /\ UNCHANGED <<ctxDone, handler, router, stream, emitted, recvLog, handled,
                   taken, prompts, lastCall, stalled, respSeen, routed, q, cb, wr, px>>

\* Initialize: the select over ctx.Done, initResponseCh and the 30 s timer;
\* on success Connect sets connected
InitializeWait ==
    /\ client.pc = "initWait"
    /\ \/ /\ handler.initResponseCh # <<>>
          /\ handler' = [handler EXCEPT !.initResponseCh = Tail(@)]
          /\ client' = [pc |-> "ready", connected |-> TRUE]
          /\ UNCHANGED transport
       \/ /\ ctxDone
          /\ ConnectFail
          /\ UNCHANGED handler
       \/ /\ ConnectFail
          /\ UNCHANGED handler
    /\ UNCHANGED <<ctxDone, router, stream, stdin, emitted, recvLog, handled,
                   taken, prompts, lastCall, stalled, respSeen, routed, q, cb, wr, px>>

\* Query: rejected unless connected; SendPrompt, then NewStream over the
\* handler's channels
ClientQuery ==
    /\ ~Connecting
    /\ prompts < MaxPrompts
    /\ prompts' = prompts + 1
    /\ IF ~client.connected
       THEN /\ lastCall' = "ErrNotConnected"
            /\ UNCHANGED <<stdin, stream>>
       ELSE IF WriteFails
       THEN /\ lastCall' = "WriteError"
            /\ UNCHANGED <<stdin, stream>>
       ELSE /\ lastCall' = "ok"
            /\ stdin' = Append(stdin, Frame("user", ToString(prompts + 1), None, None))
            /\ stream' = [StreamInit EXCEPT !.active = TRUE, !.sid = prompts + 1,
                                         !.start = taken]
    /\ UNCHANGED <<ctxDone, client, transport, handler, router, emitted, recvLog,
                   handled, taken, stalled, respSeen, routed, q, cb, wr, px>>

\* QueryHandler.Close: idempotent under the closed flag; closes doneCh
HandlerClose(h) == [h EXCEPT !.closed = TRUE]

\* Client.Close: nothing unless connected; query.Close(), transport.Close()
ClientClose ==
    /\ ~Connecting
    /\ IF ~client.connected
       THEN UNCHANGED <<client, handler, transport>>
       ELSE /\ client' = [pc |-> "closed", connected |-> FALSE]
            /\ handler' = HandlerClose(handler)
            /\ transport' = TransportClose(transport)
    /\ UNCHANGED <<ctxDone, router, stream, stdin, emitted, recvLog, handled,
                   taken, prompts, lastCall, stalled, respSeen, routed, q, cb, wr, px>>

\* the caller cancels the context it passed to Connect and Query;
\* exec.CommandContext kills the child
CancelCtx ==
    /\ ~ctxDone
    /\ ctxDone' = TRUE
    /\ transport' = [transport EXCEPT !.child = IF @ = "alive" THEN "exited" ELSE @]
    /\ UNCHANGED <<client, handler, router, stream, stdin, emitted, recvLog,
                   handled, taken, prompts, lastCall, stalled, respSeen, routed, q, cb, wr, px>>

(* ============================ Stream =================================== *)
\* a Next that never looks at the done flag
NeverDone(s) == FALSE

\* Next: if s.done { return false }
IsDone(s) == s.done

\* a Next that does not end the stream at the ResultMessage
DeliverAndGoOn(s, msg) ==
    [s EXCEPT !.current = msg,
              !.delivered = Append(@, msg),
              !.result = IF msg.type = "result" THEN msg ELSE @,
              !.lastNext = "true"]

\* Next, case msg := <-s.msgCh: current, accumulate, result and done
Deliver(s, msg) ==
    [s EXCEPT !.current = msg,
              !.delivered = Append(@, msg),
              !.result = IF msg.type = "result" THEN msg ELSE @,
              !.done = (msg.type = "result"),
              !.lastNext = "true"]

\* Next: false at once when done; otherwise one ready case of the select
\* over ctx.Done, errCh and msgCh
Next(s) ==
    IF IsDone(s)
    THEN {[s EXCEPT !.lastNext = "false"]}
    ELSE {[s EXCEPT !.err = "Canceled", !.done = TRUE, !.lastNext = "false"] :
             x \in IF ctxDone THEN {1} ELSE {}}
         \cup
         {[s EXCEPT !.err = Head(handler.errCh), !.done = TRUE, !.lastNext = "false"] :
             x \in IF handler.errCh # <<>> THEN {1} ELSE {}}
         \cup
         {Deliver(s, Head(handler.msgCh)) :
             x \in IF handler.msgCh # <<>> THEN {1} ELSE {}}
         \cup
         {[s EXCEPT !.done = TRUE, !.lastNext = "false"] :
             x \in IF handler.msgCh = <<>> /\ handler.msgClosed THEN {1} ELSE {}}

StreamNext ==
    /\ stream.active
    /\ \E s \in Next(stream) :
          /\ stream' = s
          /\ IF s.err # stream.err /\ s.err # "Canceled"
             THEN handler' = [handler EXCEPT !.errCh = Tail(@)]
             ELSE IF s.delivered # stream.delivered
             THEN handler' = [handler EXCEPT !.msgCh = Tail(@)]
             ELSE UNCHANGED handler
          /\ taken' = IF s.delivered # stream.delivered THEN taken + 1 ELSE taken
    /\ UNCHANGED <<ctxDone, client, transport, router, stdin, emitted, recvLog,
                   handled, prompts, lastCall, stalled, respSeen, routed, q, cb, wr, px>>

\* Stream.Close: s.cancel(); s.done = true
StreamClose ==
    /\ stream.active
    /\ ~stream.done
    /\ stream' = [stream EXCEPT !.done = TRUE]
    /\ UNCHANGED <<ctxDone, client, transport, handler, router, stdin, emitted,
                   recvLog, handled, taken, prompts, lastCall, stalled, respSeen, routed, q, cb, wr, px>>

(* ======================= generation Q: Query =========================== *)
\* request ids the callers of sendControlRequest choose from
Ids == {"r1", "r2"}
Callers == 1..MaxCalls
Closers == 1..MaxCloses

NoOutcome == [kind |-> None, id |-> None, pay |-> None]
CallInit == [pc |-> "idle", id |-> None, ch |-> <<>>, out |-> NoOutcome]

\* newQuery: empty registry, open channels, router not started
QueryInit ==
    [started |-> FALSE, ctxDone |-> FALSE, callerCtxDone |-> FALSE,
     tClosed |-> FALSE, inbound |-> <<>>, emitted |-> 0, stdin |-> <<>>,
     msgCh |-> <<>>, msgClosed |-> FALSE, errClosed |-> FALSE,
     router |-> [pc |-> "off", to |-> 0, hold |-> NoFrame],
     pendingRequests |-> [i \in Ids |-> 0],
     call |-> [c \in Callers |-> CallInit],
     closer |-> [k \in Closers |-> "idle"],
     panicked |-> FALSE, initialized |-> FALSE]

\* the Agent answers: a control_response for some id, or a conversation frame
QAgentEmit ==
    /\ ~q.panicked
    /\ ~q.tClosed
    /\ q.emitted < MaxQFrames
    /\ Len(q.inbound) < TransportBuf
    /\ \E f \in {Frame("control_response", i, "success", ToString(q.emitted + 1)) : i \in Ids}
                \cup {Frame("assistant", ToString(q.emitted + 1), None, None)} :
          q' = [q EXCEPT !.inbound = Append(@, f), !.emitted = @ + 1]
    /\ UNCHANGED hvars

\* Query.Start: spawn routeMessages
QStart ==
    /\ ~q.panicked
    /\ ~q.started
    /\ q' = [q EXCEPT !.started = TRUE, !.router.pc = "idle"]
    /\ UNCHANGED hvars

\* sendControlRequest: respCh := make(chan, 1); q.pendingRequests[requestID] = respCh
QRegister(c) ==
    /\ ~q.panicked
    /\ q.call[c].pc = "idle"
    /\ \E i \in Ids :
          q' = [q EXCEPT !.call[c] = [CallInit EXCEPT !.pc = "registered", !.id = i],
                         !.pendingRequests[i] = c]
    /\ UNCHANGED hvars

\* a return that leaves the registry as it is
KeepEntry(reg, i) == reg
\* the deferred delete(q.pendingRequests, requestID) of sendControlRequest
Unregister(reg, i) == [reg EXCEPT ![i] = 0]

\* sendControlRequest: q.transport.Write(data); a failed write returns at once
QWrite(c) ==
    /\ ~q.panicked
    /\ q.call[c].pc = "registered"
    /\ IF q.tClosed
       THEN q' = [q EXCEPT !.call[c].pc = "returned",
                           !.call[c].out = [kind |-> "WriteError", id |-> None, pay |-> None],
                           !.pendingRequests = Unregister(@, q.call[c].id)]
       ELSE q' = [q EXCEPT !.call[c].pc = "waiting",
                           !.stdin = Append(@, Frame("control_request", q.call[c].id,
                                                     None, None))]
    /\ UNCHANGED hvars

\* sendControlRequest: the final select; each ready case may be the one taken
QReturn(c) ==
    /\ ~q.panicked
    /\ q.call[c].pc = "waiting"
    /\ \E o \in {[kind |-> "response", id |-> f.id, pay |-> f.pay] :
                    f \in {q.call[c].ch[k] : k \in 1..Len(q.call[c].ch)}}
                \cup {[kind |-> "ErrTimeout", id |-> None, pay |-> None]}
                \cup (IF q.callerCtxDone
                      THEN {[kind |-> "Canceled", id |-> None, pay |-> None]} ELSE {})
                \cup (IF q.ctxDone
                      THEN {[kind |-> "ErrInterrupted", id |-> None, pay |-> None]} ELSE {}) :
          q' = [q EXCEPT !.call[c].pc = "returned",
                         !.call[c].out = o,
                         !.call[c].ch = IF o.kind = "response" THEN <<>> ELSE @,
                         !.pendingRequests = Unregister(@, q.call[c].id)]
    /\ UNCHANGED hvars

\* a lookup that falls back to any waiter when the id has no entry
PendingLookupAny(reg, i) ==
    IF reg[i] # 0 THEN reg[i]
    ELSE IF \A j \in Ids : reg[j] = 0 THEN 0
    ELSE reg[CHOOSE j \in Ids : reg[j] # 0]

\* handleControlResponse: ch, ok := q.pendingRequests[resp.Response.RequestID]
PendingLookup(reg, i) == reg[i]

\* routeMessages: case data := <-q.transport.Messages(); handleMessage
QRouterRecv ==
    /\ ~q.panicked
    /\ q.router.pc = "idle"
    /\ q.inbound # <<>>
    /\ LET f == Head(q.inbound) IN
       IF f.type = "control_response"
       THEN IF PendingLookup(q.pendingRequests, f.id) # 0
            THEN q' = [q EXCEPT !.inbound = Tail(@),
                                !.router = [pc |-> "deliver", hold |-> f,
                                            to |-> PendingLookup(q.pendingRequests, f.id)]]
            ELSE q' = [q EXCEPT !.inbound = Tail(@)]
       ELSE \/ /\ Len(q.msgCh) < SessionBuf
               /\ q' = [q EXCEPT !.inbound = Tail(@), !.msgCh = Append(@, f)]
            \/ /\ Len(q.msgCh) >= SessionBuf \/ q.ctxDone
               /\ q' = [q EXCEPT !.inbound = Tail(@),
                                 !.router = [pc |-> "sendMsg", hold |-> f, to |-> 0]]
    /\ UNCHANGED hvars

\* handleControlResponse: select { case ch <- payload: default: }
QRouterDeliver ==
    /\ ~q.panicked
    /\ q.router.pc = "deliver"
    /\ q' = [q EXCEPT !.router = [pc |-> "idle", to |-> 0, hold |-> NoFrame],
                      !.call[q.router.to].ch =
                          IF Len(@) < 1 THEN Append(@, q.router.hold) ELSE @]
    /\ UNCHANGED hvars

\* handleMessage: the select around q.msgCh <- msg ends on q.ctx.Done
QRouterSendAbort ==
    /\ ~q.panicked
    /\ q.router.pc = "sendMsg"
    /\ q.ctxDone
    /\ q' = [q EXCEPT !.router = [pc |-> "idle", to |-> 0, hold |-> NoFrame]]
    /\ UNCHANGED hvars

\* routeMessages: case <-q.ctx.Done() / <-q.transport.Done(): return
QRouterExit ==
    /\ ~q.panicked
    /\ q.router.pc = "idle"
    /\ q.ctxDone \/ q.tClosed
    /\ q' = [q EXCEPT !.router.pc = "exited"]
    /\ UNCHANGED hvars

\* Query.Close, first statement: q.cancel()
QCloseCancel(k) ==
    /\ ~q.panicked
    /\ q.closer[k] = "idle"
    /\ q' = [q EXCEPT !.closer[k] = "cancelled", !.ctxDone = TRUE]
    /\ UNCHANGED hvars

\* close(ch) of a channel that is already closed panics
CloseChannel(isClosed) == [closed |-> TRUE, panic |-> isClosed]

\* Query.Close: q.wg.Wait() has returned; close(q.msgCh); close(q.errCh);
\* return nil
QCloseChannels(k) ==
    /\ ~q.panicked
    /\ q.closer[k] = "cancelled"
    /\ q.router.pc \in {"off", "exited"}
    /\ q' = [q EXCEPT !.closer[k] = IF CloseChannel(q.msgClosed).panic
                                    THEN @ ELSE "done",
                      !.msgClosed = CloseChannel(@).closed,
                      !.errClosed = CloseChannel(@).closed,
                      !.panicked = CloseChannel(q.msgClosed).panic
                                   \/ CloseChannel(q.errClosed).panic]
    /\ UNCHANGED hvars

\* the caller's context is cancelled
QCancelCallerCtx ==
    /\ ~q.panicked
    /\ ~q.callerCtxDone
    /\ q' = [q EXCEPT !.callerCtxDone = TRUE]
    /\ UNCHANGED hvars

\* Transport.Close: Done is closed, writes fail
QTransportClose ==
    /\ ~q.panicked
    /\ ~q.tClosed
    /\ q' = [q EXCEPT !.tClosed = TRUE]
    /\ UNCHANGED hvars

\* the control request the four senders marshal: "type" and "request" only, so
\* the Agent reads an empty request_id
ControlRequestOf(sub) == Frame("control_request", "", sub, None)

\* Query.Initialize: nothing when already initialized; marshal, Write, then
\* initialized = true
QInitialize ==
    /\ ~q.initialized
    /\ ~q.tClosed
    /\ Len(q.stdin) < MaxCtl
    /\ q' = [q EXCEPT !.stdin = Append(@, ControlRequestOf("initialize")),
                      !.initialized = TRUE]
    /\ UNCHANGED hvars

\* Query.Interrupt: marshal, Write
QInterrupt ==
    /\ ~q.tClosed
    /\ Len(q.stdin) < MaxCtl
    /\ q' = [q EXCEPT !.stdin = Append(@, ControlRequestOf("interrupt"))]
    /\ UNCHANGED hvars

\* Query.SetPermissionMode: marshal, Write
QSetPermissionMode ==
    /\ ~q.tClosed
    /\ Len(q.stdin) < MaxCtl
    /\ q' = [q EXCEPT !.stdin = Append(@, ControlRequestOf("set_permission_mode"))]
    /\ UNCHANGED hvars

\* Query.SetModel: marshal, Write
QSetModel ==
    /\ ~q.tClosed
    /\ Len(q.stdin) < MaxCtl
    /\ q' = [q EXCEPT !.stdin = Append(@, ControlRequestOf("set_model"))]
    /\ UNCHANGED hvars

InitQ ==
    /\ ctxDone = FALSE
    /\ client = ClientInit
    /\ transport = TransportInit
    /\ handler = HandlerInit
    /\ router = RouterInit
    /\ stream = StreamInit
    /\ stdin = <<>>
    /\ emitted = 0
    /\ recvLog = <<>>
    /\ handled = {}
    /\ taken = 0
    /\ prompts = 0
    /\ lastCall = None
    /\ stalled = FALSE
    /\ respSeen = {}
    /\ routed = 0
    /\ q = QueryInit
    /\ cb = CbInit
    /\ wr = WrInit
    /\ px = PxInit

NextQ ==
    \/ QAgentEmit
    \/ QStart
    \/ \E c \in Callers : QRegister(c)
    \/ \E c \in Callers : QWrite(c)
    \/ \E c \in Callers : QReturn(c)
    \/ QRouterRecv
    \/ QRouterDeliver
    \/ QRouterSendAbort
    \/ QRouterExit
    \/ \E k \in Closers : QCloseCancel(k)
    \/ \E k \in Closers : QCloseChannels(k)
    \/ QCancelCallerCtx
    \/ QTransportClose

SpecQ == InitQ /\ [][NextQ]_vars

\* the timer of time.After(timeout) fires: a waiting call always gets to return
FairSpecQ == SpecQ /\ \A c \in Callers : WF_vars(QReturn(c))

\* the application's control requests on one Query
NextQCtl ==
    \/ QStart
    \/ QInitialize
    \/ QInterrupt
    \/ QSetPermissionMode
    \/ QSetModel
    \/ QTransportClose

SpecQCtl == InitQ /\ [][NextQCtl]_vars

(* ============ dispatch of one inbound control request ================== *)
\* the two handlers of inbound control requests: QueryHandler and Query
Gens == {"H", "Q"}

\* tool names a hook input carries
ToolNames == {"Bash", "Edit"}

\* HookMatcher.ToolName: all tools, unset, or one tool
MatcherTools == {"*", "", "Bash"}

\* what a hook callback returns: (ContinueHook(), nil), (BlockHook(r), nil),
\* (StopHook(r), nil), (nil, nil), (nil, err), and with the HookOutput of
\* hooks.go also (ModifyHook(in), nil)
HookReturns(g) ==
    {"Continue", "Block", "Stop", "Nil", "Error"}
    \cup (IF g = "H" THEN {"Modify"} ELSE {})

\* the HookOutput the k-th matcher's callback returns (zero values are "")
HookOutputOf(ret, k) ==
    CASE ret = "Continue" -> [Continue |-> TRUE, Decision |-> "", Reason |-> "",
                              StopReason |-> "", ModifiedInput |-> ""]
      [] ret = "Block"    -> [Continue |-> FALSE, Decision |-> "block",
                              Reason |-> "blocked_" \o ToString(k),
                              StopReason |-> "", ModifiedInput |-> ""]
      [] ret = "Stop"     -> [Continue |-> FALSE, Decision |-> "", Reason |-> "",
                              StopReason |-> "stopped_" \o ToString(k),
                              ModifiedInput |-> ""]
      [] ret = "Modify"   -> [Continue |-> TRUE, Decision |-> "", Reason |-> "",
                              StopReason |-> "",
                              ModifiedInput |-> "input_" \o ToString(k)]

\* err.Error() of the error the k-th matcher's callback returns
HookErrorOf(k) == "failed_" \o ToString(k)

\* an omitempty string field of a JSON object
OmitEmpty(str) == IF str = "" THEN None ELSE str

\* json.Marshal of HookCallbackResponse: continue always, the rest omitempty
HookCallbackResponse(c, d, r, sr, m) ==
    [continue |-> IF c THEN "true" ELSE "false", decision |-> OmitEmpty(d),
     reason |-> OmitEmpty(r), stop_reason |-> OmitEmpty(sr),
     modified_input |-> OmitEmpty(m)]

\* HookOutput.ToJSON of part_013: continue only when false, no modified input
HookOutputToJSON(o) ==
    [continue |-> IF ~o.Continue THEN "false" ELSE None,
     decision |-> OmitEmpty(o.Decision), reason |-> OmitEmpty(o.Reason),
     stop_reason |-> OmitEmpty(o.StopReason), modified_input |-> None]

\* handleHookCallback of QueryHandler: matcher.ToolName is "*" or the input's
ToolMatches(m, tool) == m.tool = "*" \/ m.tool = tool

\* HookMatcher.matchesHook of part_013: "*" or "" match every tool
matchesHook(m, tool) == m.tool = "*" \/ m.tool = "" \/ m.tool = tool

NoPayload == [absent |-> TRUE]
NoResult == [err |-> "", payload |-> NoPayload]
NoReply == [written |-> FALSE, envelope |-> None, payload |-> NoPayload, error |-> ""]

\* a hook_callback request enters handleHookCallback
HookStart(g, ms, t) ==
    [kind |-> "hook_callback", gen |-> g, pc |-> "lookup", matchers |-> ms,
     tool |-> t, i |-> 1, invoked |-> <<>>, ctxDone |-> FALSE,
     cancelled |-> FALSE, result |-> NoResult, reply |-> NoReply]

\* the handler returns res to handleControlRequest
Return(res) == [cb EXCEPT !.pc = "respond", !.result = res]

\* matchers, ok := hooks[event]; if !ok || len(matchers) == 0: continue
HookLookup ==
    /\ cb.pc = "lookup"
    /\ cb.kind = "hook_callback"
    /\ cb' = IF cb.matchers = <<>>
             THEN Return([err |-> "",
                          payload |-> IF cb.gen = "H"
                                      THEN HookCallbackResponse(TRUE, "", "", "", "")
                                      ELSE HookOutputToJSON(HookOutputOf("Continue", 0))])
             ELSE [cb EXCEPT !.pc = "loop"]
    /\ UNCHANGED <<evars, wr, px>>

\* one iteration of the loop over the matchers in QueryHandler.handleHookCallback
HookIterH(m, k) ==
    IF ~ToolMatches(m, cb.tool)
    THEN [cb EXCEPT !.i = k + 1]
    ELSE IF m.ret = "Error"
    THEN [Return([err |-> "",
                  payload |-> HookCallbackResponse(FALSE, "block", HookErrorOf(k), "", "")])
             EXCEPT !.invoked = Append(@, k)]
    ELSE IF m.ret # "Nil" /\ ~HookOutputOf(m.ret, k).Continue
    THEN [Return([err |-> "",
                  payload |-> HookCallbackResponse(HookOutputOf(m.ret, k).Continue,
                                                   HookOutputOf(m.ret, k).Decision,
                                                   HookOutputOf(m.ret, k).Reason,
                                                   HookOutputOf(m.ret, k).StopReason,
                                                   HookOutputOf(m.ret, k).ModifiedInput)])
             EXCEPT !.invoked = Append(@, k)]
    ELSE [cb EXCEPT !.i = k + 1, !.invoked = Append(@, k)]

\* one iteration of the loop over the matchers in Query.handleHookCallback
HookIterQ(m, k) ==
    IF ~matchesHook(m, cb.tool)
    THEN [cb EXCEPT !.i = k + 1]
    ELSE IF m.ret = "Error"
    THEN [Return([err |-> "hook callback error: " \o HookErrorOf(k),
                  payload |-> NoPayload])
             EXCEPT !.invoked = Append(@, k)]
    ELSE IF m.ret # "Nil" /\ ~HookOutputOf(m.ret, k).Continue
    THEN [Return([err |-> "", payload |-> HookOutputToJSON(HookOutputOf(m.ret, k))])
             EXCEPT !.invoked = Append(@, k)]
    ELSE [cb EXCEPT !.i = k + 1, !.invoked = Append(@, k)]

\* the loop: the next matcher, or past the last one the continue reply
HookStep ==
    /\ cb.pc = "loop"
    /\ cb' = IF cb.i > Len(cb.matchers)
             THEN Return([err |-> "",
                          payload |-> IF cb.gen = "H"
                                      THEN HookCallbackResponse(TRUE, "", "", "", "")
                                      ELSE HookOutputToJSON(HookOutputOf("Continue", 0))])
             ELSE IF cb.gen = "H"
             THEN HookIterH(cb.matchers[cb.i], cb.i)
             ELSE HookIterQ(cb.matchers[cb.i], cb.i)
    /\ UNCHANGED <<evars, wr, px>>

\* the ambient context is cancelled while the handler is running
CbCancel ==
    /\ cb.pc \in {"lookup", "loop", "call"}
    /\ ~cb.ctxDone
    /\ cb' = [cb EXCEPT !.ctxDone = TRUE, !.cancelled = TRUE]
    /\ UNCHANGED <<evars, wr, px>>

\* handleControlRequest after the handler: QueryHandler always builds a success
\* envelope; Query sends an error envelope when the handler returned an error.
\* transport.Write fails once the cancelled context has killed the child
CbRespond ==
    /\ cb.pc = "respond"
    /\ \/ cb' = [cb EXCEPT !.pc = "done",
                          !.reply = IF cb.gen = "Q" /\ cb.result.err # ""
                                    THEN [written |-> TRUE, envelope |-> "error",
                                          payload |-> NoPayload, error |-> cb.result.err]
                                    ELSE [written |-> TRUE, envelope |-> "success",
                                          payload |-> cb.result.payload, error |-> ""]]
       \/ /\ cb.ctxDone
          /\ cb' = [cb EXCEPT !.pc = "done"]
    /\ UNCHANGED <<evars, wr, px>>

(* --------------------------- can_use_tool ------------------------------ *)
\* dynamic types of the PermissionResult a decider can return. With the value
\* receivers of part_017 the values and the pointers both satisfy the
\* interface; with the pointer receivers of permission.go only the pointers do.
\* A decider may also return nil
PermissionTypes(g) ==
    IF g = "H"
    THEN {"PermissionAllow", "PermissionDeny", "*PermissionAllow", "*PermissionDeny", "nil"}
    ELSE {"*PermissionAllow", "*PermissionDeny", "nil"}

\* the results a decider can return: Allow(), AllowWithInput(in), Deny(msg),
\* DenyAndInterrupt(msg), as values or pointers, and nil
PermissionResults(g) ==
    {[type |-> t, UpdatedInput |-> u, Message |-> "", Interrupt |-> FALSE] :
        t \in PermissionTypes(g) \cap {"PermissionAllow", "*PermissionAllow"},
        u \in {"", "input_2"}}
    \cup {[type |-> t, UpdatedInput |-> "", Message |-> "denied", Interrupt |-> b] :
             t \in PermissionTypes(g) \cap {"PermissionDeny", "*PermissionDeny"},
             b \in BOOLEAN}
    \cup {[type |-> "nil", UpdatedInput |-> "", Message |-> "", Interrupt |-> FALSE]}

NoDecision == [type |-> None, UpdatedInput |-> "", Message |-> "", Interrupt |-> FALSE]

\* json.Marshal of CanUseToolResponse: allowed always, the rest omitempty
CanUseToolResponse(a, r, u, i) ==
    [allowed |-> IF a THEN "true" ELSE "false", reason |-> OmitEmpty(r),
     updated_input |-> OmitEmpty(u), interrupt |-> IF i THEN "true" ELSE None]

\* QueryHandler.handleCanUseTool after the decider returned r: the type switch
handleCanUseTool(r) ==
    CASE r.type = "PermissionAllow" -> CanUseToolResponse(TRUE, "", r.UpdatedInput, FALSE)
      [] r.type = "PermissionDeny"  -> CanUseToolResponse(FALSE, r.Message, "", r.Interrupt)
      [] OTHER                      -> CanUseToolResponse(TRUE, "", "", FALSE)

\* PermissionAllow.ToJSON / PermissionDeny.ToJSON of permission.go
PermissionToJSON(r) ==
    IF r.type = "*PermissionAllow"
    THEN [behavior |-> "allow", message |-> None,
          updatedInput |-> OmitEmpty(r.UpdatedInput), interrupt |-> None]
    ELSE [behavior |-> "deny", message |-> r.Message, updatedInput |-> None,
          interrupt |-> IF r.Interrupt THEN "true" ELSE "false"]

\* a can_use_tool request enters handleCanUseTool; decider: configured or not
PermStart(g, d) ==
    [kind |-> "can_use_tool", gen |-> g, pc |-> "call", decider |-> d,
     ret |-> NoDecision, ctxDone |-> FALSE, cancelled |-> FALSE,
     result |-> NoResult, reply |-> NoReply]

\* handleCanUseTool: allow without a decider; otherwise call it and convert
\* its result. result.ToJSON() on a nil result panics
PermCall ==
    /\ cb.pc = "call"
    /\ cb.kind = "can_use_tool"
    /\ IF cb.decider = "none"
       THEN cb' = Return([err |-> "",
                          payload |-> IF cb.gen = "H"
                                      THEN CanUseToolResponse(TRUE, "", "", FALSE)
                                      ELSE [behavior |-> "allow", message |-> None,
                                            updatedInput |-> None, interrupt |-> None]])
       ELSE \E r \in PermissionResults(cb.gen) :
               cb' = IF cb.gen = "H"
                     THEN [Return([err |-> "", payload |-> handleCanUseTool(r)])
                              EXCEPT !.ret = r]
                     ELSE IF r.type = "nil"
                     THEN [cb EXCEPT !.pc = "panicked", !.ret = r]
                     ELSE [Return([err |-> "", payload |-> PermissionToJSON(r)])
                              EXCEPT !.ret = r]
    /\ UNCHANGED <<evars, wr, px>>

(* ---------------------------- mcp_message ------------------------------ *)
\* the SDK servers registered in the options: one server with two tools
Servers == {"calc"}
ToolsOf(srv) == <<"add", "echo">>

ServerNames == Servers \cup {"nosuch"}
Methods == {"initialize", "tools/list", "tools/call", "bogus/method"}
CallNames == {"add", "echo", "nosuch"}

\* what a tool handler returns: (TextResult(text), nil) or (nil, err)
HandlerReturns == {"Text", "Error"}

NoError == [code |-> 0, message |-> ""]
NoMCPResult == [content |-> <<>>, isError |-> None, other |-> None]

\* the content of TextResult(text) / of a handler error, as JSON
TextContent(text) == <<[type |-> "text", text |-> text]>>

\* a server that hands the handler's error on to its caller
HandlerErrorPropagated(name) ==
    [err |-> "failed: " \o name, invoked |-> <<name>>, result |-> NoMCPResult]

\* tools/call, the handler returned an error: it becomes a result whose content
\* is the error's message, with isError true
HandlerErrorResult(name) ==
    [err |-> "", invoked |-> <<name>>,
     result |-> [content |-> TextContent("failed: " \o name),
                 isError |-> "true", other |-> None]]

\* MCPServer.HandleMCPRequest of part_016: result or error
HandleMCPRequest(method, name, ret) ==
    CASE method = "tools/list" ->
            [err |-> "", invoked |-> <<>>,
             result |-> [NoMCPResult EXCEPT !.other = "tools"]]
      [] method = "tools/call" ->
            IF \E k \in 1..Len(ToolsOf("calc")) : ToolsOf("calc")[k] = name
            THEN IF ret = "Error"
                 THEN HandlerErrorResult(name)
                 ELSE [err |-> "", invoked |-> <<name>>,
                       result |-> [content |-> TextContent("text of " \o name),
                                   isError |-> "false", other |-> None]]
            ELSE [err |-> "tool not found: " \o name, invoked |-> <<>>,
                  result |-> NoMCPResult]
      [] OTHER ->
            [err |-> "unknown method: " \o method, invoked |-> <<>>,
             result |-> NoMCPResult]

\* MCPServer.HandleRequest / handleToolsCall of mcp.go: result or error
HandleRequest(method, name, ret) ==
    CASE method = "initialize" ->
            [err |-> "", invoked |-> <<>>,
             result |-> [NoMCPResult EXCEPT !.other = "serverInfo"]]
      [] method = "tools/list" ->
            [err |-> "", invoked |-> <<>>,
             result |-> [NoMCPResult EXCEPT !.other = "tools"]]
      [] method = "tools/call" ->
            IF \E k \in 1..Len(ToolsOf("calc")) : ToolsOf("calc")[k] = name
            THEN IF ret = "Error"
                 THEN HandlerErrorResult(name)
                 ELSE [err |-> "", invoked |-> <<name>>,
                       result |-> [content |-> TextContent("text of " \o name),
                                   isError |-> None, other |-> None]]
            ELSE [err |-> "unknown tool: " \o name, invoked |-> <<>>,
                  result |-> NoMCPResult]
      [] OTHER ->
            [err |-> "unknown method: " \o method, invoked |-> <<>>,
             result |-> NoMCPResult]

\* QueryHandler.handleMCPMessage: unknown server -32601, handler error -32603
handleMCPMessageH(srv, r) ==
    IF srv \notin Servers
    THEN [err |-> "",
          payload |-> [result |-> NoMCPResult,
                       error |-> [code |-> -32601,
                                  message |-> "server not found: " \o srv]]]
    ELSE IF r.err # ""
    THEN [err |-> "",
          payload |-> [result |-> NoMCPResult,
                       error |-> [code |-> -32603, message |-> r.err]]]
    ELSE [err |-> "", payload |-> [result |-> r.result, error |-> NoError]]

\* Query.handleMCPMessage: unknown server is an error; handler error -32603
handleMCPMessageQ(srv, r) ==
    IF srv \notin Servers
    THEN [err |-> "unknown MCP server: " \o srv, payload |-> NoPayload]
    ELSE IF r.err # ""
    THEN [err |-> "",
          payload |-> [result |-> NoMCPResult,
                       error |-> [code |-> -32603, message |-> r.err]]]
    ELSE [err |-> "", payload |-> [result |-> r.result, error |-> NoError]]

\* an mcp_message request enters handleMCPMessage
McpStart(g, srv, m, n) ==
    [kind |-> "mcp_message", gen |-> g, pc |-> "call", server |-> srv,
     method |-> m, name |-> n, ret |-> None, invoked |-> <<>>,
     ctxDone |-> FALSE, cancelled |-> FALSE, result |-> NoResult, reply |-> NoReply]

\* handleMCPMessage: look the server up, let it handle the request
McpCall ==
    /\ cb.pc = "call"
    /\ cb.kind = "mcp_message"
    /\ \E ret \in HandlerReturns :
          LET r == IF cb.server \notin Servers
                   THEN [err |-> "", invoked |-> <<>>, result |-> NoMCPResult]
                   ELSE IF cb.gen = "H"
                   THEN HandleMCPRequest(cb.method, cb.name, ret)
                   ELSE HandleRequest(cb.method, cb.name, ret)
          IN cb' = [Return(IF cb.gen = "H" THEN handleMCPMessageH(cb.server, r)
                                           ELSE handleMCPMessageQ(cb.server, r))
                       EXCEPT !.invoked = r.invoked,
                              !.ret = IF r.invoked # <<>> THEN ret ELSE None]
    /\ UNCHANGED <<evars, wr, px>>

\* bounded sequences over S
SeqUpTo(S, n) == UNION {[1..k -> S] : k \in 0..n}

HookMatchers(g) == [tool : MatcherTools, ret : HookReturns(g)]

\* the engines stay as constructed while one request is dispatched
EnginesIdle ==
    /\ ctxDone = FALSE
    /\ client = ClientInit
    /\ transport = TransportInit
    /\ handler = HandlerInit
    /\ router = RouterInit
    /\ stream = StreamInit
    /\ stdin = <<>>
    /\ emitted = 0
    /\ recvLog = <<>>
    /\ handled = {}
    /\ taken = 0
    /\ prompts = 0
    /\ lastCall = None
    /\ stalled = FALSE
    /\ respSeen = {}
    /\ routed = 0
    /\ q = QueryInit

InitCb ==
    /\ EnginesIdle
    /\ wr = WrInit
    /\ px = PxInit
    /\ cb \in {HookStart(g, ms, t) :
                 g \in Gens, ms \in SeqUpTo(HookMatchers("H"), MaxMatchers), t \in ToolNames}
              \cup {PermStart(g, d) : g \in Gens, d \in {"none", "set"}}
              \cup {McpStart(g, srv, m, n) :
                       g \in Gens, srv \in ServerNames, m \in Methods, n \in CallNames}
    /\ (cb.kind = "hook_callback" /\ cb.gen = "Q") =>
           \A k \in 1..Len(cb.matchers) : cb.matchers[k].ret \in HookReturns("Q")

NextCb ==
    \/ HookLookup
    \/ HookStep
    \/ PermCall
    \/ McpCall
    \/ CbCancel
    \/ CbRespond

SpecCb == InitCb /\ [][NextCb]_vars

(* ================== SubprocessTransport.Write, concurrent ============== *)
\* The callers of Write: the router answering a control request, the
\* application sending a prompt, the application sending a control request.
Writers == {"router", "prompt", "control"}

NoHolder == "none"

\* One byte on the pipe.  A payload byte carries the frame it belongs to
\* (writer, call number) and its index in it; '\n' is the byte NL.
NL == [w |-> "", c |-> 0, i |-> 0]

Body(p, c) == [k \in 1..FrameLen |-> [w |-> p, c |-> c, i |-> k]]

\* what a caller may hand to Write: json.Marshal output, the same with a
\* newline of its own, or no bytes at all
DataOf(p, c) == {Body(p, c), Append(Body(p, c), NL), << >>}

\* "Append newline if not present"
Terminated(data) ==
    IF Len(data) > 0 /\ data[Len(data)] # NL THEN Append(data, NL) ELSE data

WriterIdle == [pc |-> "idle", data |-> << >>, pos |-> 0, calls |-> 0, err |-> ""]

WriteInit ==
    [pc |-> "run", mu |-> NoHolder, closed |-> FALSE, broken |-> FALSE,
     pipe |-> << >>, w |-> [p \in Writers |-> WriterIdle]]

\* a Write without the mutex: Lock() never waits
LockSkipped(p) == TRUE
\* t.mu.Lock() returns only when nobody holds the mutex
LockFree(p) == wr.mu = NoHolder

\* a Write that does not look at the flag
ClosedIgnored(p) == FALSE
\* "if t.closed": the flag as the caller holding the mutex reads it
IsClosed(p) == wr.closed

\* a goroutine enters Write(data)
WriteCall(p) ==
    /\ wr.pc = "run"
    /\ wr.w[p].pc = "idle"
    /\ wr.w[p].calls < MaxWrites
    /\ \E data \in DataOf(p, wr.w[p].calls + 1) :
         wr' = [wr EXCEPT !.w[p].pc = "lock", !.w[p].data = data, !.w[p].pos = 0,
                          !.w[p].calls = @ + 1, !.w[p].err = ""]
    /\ UNCHANGED <<evars, cb, px>>

\* t.mu.Lock(); the closed check; the newline
WriteLock(p) ==
    /\ wr.pc = "run"
    /\ wr.w[p].pc = "lock"
    /\ LockFree(p)
    /\ IF IsClosed(p)
         THEN wr' = [wr EXCEPT !.w[p].pc = "idle", !.w[p].err = "ErrStreamClosed"]
         ELSE wr' = [wr EXCEPT !.mu = p, !.w[p].pc = "write",
                               !.w[p].data = Terminated(@)]
    /\ UNCHANGED <<evars, cb, px>>

\* t.stdin.Write(data): the pipe takes the bytes in one or more pieces; the
\* call returns, and the deferred Unlock runs, when all are taken
WriteChunk(p) ==
    /\ wr.pc = "run"
    /\ wr.w[p].pc = "write"
    /\ ~wr.broken
    /\ IF wr.w[p].pos < Len(wr.w[p].data)
         THEN wr' = [wr EXCEPT !.pipe = Append(@, wr.w[p].data[wr.w[p].pos + 1]),
                               !.w[p].pos = @ + 1]
         ELSE wr' = [wr EXCEPT !.mu = NoHolder, !.w[p].pc = "idle"]
    /\ UNCHANGED <<evars, cb, px>>

\* t.stdin.Write(data) on a pipe whose reader is gone: the error is returned
WriteFail(p) ==
    /\ wr.pc = "run"
    /\ wr.w[p].pc = "write"
    /\ wr.broken
    /\ wr' = [wr EXCEPT !.mu = NoHolder, !.w[p].pc = "idle", !.w[p].err = "EPIPE"]
    /\ UNCHANGED <<evars, cb, px>>

\* the child exits or is killed: nothing more is read from the pipe
PipeBreak ==
    /\ wr.pc = "run"
    /\ ~wr.broken
    /\ wr' = [wr EXCEPT !.broken = TRUE]
    /\ UNCHANGED <<evars, cb, px>>

\* Close, under the same mutex
WriteClose ==
    /\ wr.pc = "run"
    /\ LockFree("close")
    /\ ~wr.closed
    /\ wr' = [wr EXCEPT !.closed = TRUE, !.broken = TRUE]
    /\ UNCHANGED <<evars, cb, px>>

InitWr ==
    /\ EnginesIdle
    /\ cb = CbInit
    /\ wr = WriteInit
    /\ px = PxInit

NextWr ==
    \/ \E p \in Writers : WriteCall(p)
    \/ \E p \in Writers : WriteLock(p)
    \/ \E p \in Writers : WriteChunk(p)
    \/ \E p \in Writers : WriteFail(p)
    \/ PipeBreak
    \/ WriteClose

SpecWr == InitWr /\ [][NextWr]_vars

(* ============ SubprocessTransport: Start, the three tasks, Close ======= *)
\* an error on the transport's error channel
ProcessError(code, stderr) == [kind |-> "ProcessError", code |-> code, stderr |-> stderr]

\* exit statuses of a child that ends by itself: success, failure
ExitCodes == {0, 1}

\* NewSubprocessTransport: nothing started, channels open and empty
LifeInit ==
    [pc |-> "life",
     starts |-> 0,            \* calls of Start that have returned nil
     closed |-> FALSE,        \* t.closed; doneCh is closed with it
     child |-> "none",        \* the process behind t.cmd
     code |-> 0,              \* its exit status once it has exited
     printed |-> 0,           \* stdout lines the running child has printed
     errLines |-> 0,          \* stderr lines the running child has printed
     readTask |-> "off", readAt |-> 0,
     errTask |-> "off", scanned |-> 0,
     waitTask |-> "off",
     msgCh |-> 0, msgClosed |-> FALSE,
     errCh |-> << >>,
     frames |-> 0,            \* frames taken from Messages()
     errs |-> << >>,          \* errors taken from Errors()
     writes |-> 0, lastWrite |-> "",
     wasClosed |-> FALSE,     \* Start ran on a transport that had ended
     lateFrame |-> FALSE,     \* a frame went into msgCh after that
     panicked |-> FALSE]

TasksOff == wr.readTask \in {"off", "done"} /\ wr.errTask \in {"off", "done"}
               /\ wr.waitTask \in {"off", "done"}

Running == wr.pc = "life" /\ ~wr.panicked

\* the transport has ended: Close was called, or the child is gone
Ended == wr.closed \/ wr.child = "exited"

\* Start: a new command, new pipes, the process, the three goroutines.
\* Neither t.closed nor an earlier child is looked at.  (Start is taken
\* here only when the goroutines of an earlier Start have all returned.)
TStart ==
    /\ Running
    /\ wr.starts < MaxStarts
    /\ TasksOff
    /\ wr.child # "alive"
    /\ wr' = [wr EXCEPT !.starts = @ + 1, !.child = "alive", !.code = 0,
                        !.printed = 0, !.errLines = 0,
                        !.readTask = "read", !.readAt = 0,
                        !.errTask = "scan", !.scanned = 0,
                        !.waitTask = "wait",
                        !.wasClosed = @ \/ Ended]
    /\ UNCHANGED <<evars, cb, px>>

\* the child prints a frame on stdout
ChildPrint ==
    /\ Running
    /\ wr.child = "alive"
    /\ wr.printed < MaxLines
    /\ wr' = [wr EXCEPT !.printed = @ + 1]
    /\ UNCHANGED <<evars, cb, px>>

\* the child prints a line on stderr
ChildStderr ==
    /\ Running
    /\ wr.child = "alive"
    /\ wr.errLines < MaxStderr
    /\ wr' = [wr EXCEPT !.errLines = @ + 1]
    /\ UNCHANGED <<evars, cb, px>>

\* the child exits with a status of its own
ChildExit ==
    /\ Running
    /\ wr.child = "alive"
    /\ \E c \in ExitCodes : wr' = [wr EXCEPT !.child = "exited", !.code = c]
    /\ UNCHANGED <<evars, cb, px>>

\* readLoop: ReadSlice returns a line, or EOF once the child is gone
TReadLoop ==
    /\ Running
    /\ wr.readTask = "read"
    /\ \/ /\ wr.readAt < wr.printed
          /\ wr' = [wr EXCEPT !.readAt = @ + 1, !.readTask = "send"]
       \/ /\ wr.readAt = wr.printed
          /\ wr.child = "exited"
          /\ wr' = [wr EXCEPT !.readTask = "done"]
    /\ UNCHANGED <<evars, cb, px>>

\* sendLine: select { case t.msgCh <- msg; case <-t.doneCh }.  A send on a
\* closed channel panics.
TSendLine ==
    /\ Running
    /\ wr.readTask = "send"
    /\ \/ /\ wr.msgClosed
          /\ wr' = [wr EXCEPT !.panicked = TRUE]
       \/ /\ ~wr.msgClosed
          /\ wr.msgCh < TransportBuf
          /\ wr' = [wr EXCEPT !.msgCh = @ + 1, !.readTask = "read",
                              !.lateFrame = @ \/ wr.wasClosed]
       \/ /\ wr.closed
          /\ wr' = [wr EXCEPT !.readTask = "done"]
    /\ UNCHANGED <<evars, cb, px>>

\* readStderr: scanner.Scan() appends a line to the builder; at the end of
\* the stream the builder, if not empty, goes out as a ProcessError with no
\* exit code
TReadStderr ==
    /\ Running
    /\ wr.errTask = "scan"
    /\ \/ /\ wr.scanned < wr.errLines
          /\ wr' = [wr EXCEPT !.scanned = @ + 1]
       \/ /\ wr.child = "exited"
          /\ wr.scanned = wr.errLines \/ wr.waitTask # "wait"
          /\ wr' = [wr EXCEPT !.errTask = IF wr.scanned > 0 THEN "emit" ELSE "done"]
    /\ UNCHANGED <<evars, cb, px>>

TStderrEmit ==
    /\ Running
    /\ wr.errTask = "emit"
    /\ \/ /\ Len(wr.errCh) < ErrorBuf
          /\ wr' = [wr EXCEPT !.errCh = Append(@, ProcessError(0, wr.scanned)),
                              !.errTask = "done"]
       \/ /\ wr.closed
          /\ wr' = [wr EXCEPT !.errTask = "done"]
    /\ UNCHANGED <<evars, cb, px>>

\* waitLoop: cmd.Wait returns; an *exec.ExitError becomes a ProcessError
\* with the exit code and nothing else
TWaitLoop ==
    /\ Running
    /\ wr.waitTask = "wait"
    /\ wr.child = "exited"
    /\ wr' = [wr EXCEPT !.waitTask = IF wr.code # 0 THEN "emit" ELSE "close"]
    /\ UNCHANGED <<evars, cb, px>>

TWaitEmit ==
    /\ Running
    /\ wr.waitTask = "emit"
    /\ \/ /\ Len(wr.errCh) < ErrorBuf
          /\ wr' = [wr EXCEPT !.errCh = Append(@, ProcessError(wr.code, 0)),
                              !.waitTask = "close"]
       \/ /\ wr.closed
          /\ wr' = [wr EXCEPT !.waitTask = "close"]
    /\ UNCHANGED <<evars, cb, px>>

\* waitLoop: close(t.msgCh); closing a closed channel panics
TWaitClose ==
    /\ Running
    /\ wr.waitTask = "close"
    /\ IF wr.msgClosed
         THEN wr' = [wr EXCEPT !.panicked = TRUE]
         ELSE wr' = [wr EXCEPT !.msgClosed = TRUE, !.waitTask = "done"]
    /\ UNCHANGED <<evars, cb, px>>

\* Write: ErrStreamClosed when t.closed, else whatever the pipe write gives
TWrite ==
    /\ Running
    /\ wr.starts > 0
    /\ wr.writes < MaxWrites
    /\ wr' = [wr EXCEPT !.writes = @ + 1,
                        !.lastWrite = IF wr.closed THEN "ErrStreamClosed"
                                      ELSE IF wr.child = "alive" THEN "nil"
                                      ELSE "EPIPE"]
    /\ UNCHANGED <<evars, cb, px>>

\* Close: once; closed, close(doneCh), stdin.Close, Process.Kill
TClose ==
    /\ Running
    /\ ~wr.closed
    /\ wr' = [wr EXCEPT !.closed = TRUE,
                        !.child = IF @ = "alive" THEN "exited" ELSE @,
                        !.code = IF wr.child = "alive" THEN -1 ELSE @]
    /\ UNCHANGED <<evars, cb, px>>

\* the owner of the transport takes a frame from Messages()
TakeMessage ==
    /\ Running
    /\ wr.msgCh > 0
    /\ wr.frames < MaxLines
    /\ wr' = [wr EXCEPT !.msgCh = @ - 1, !.frames = @ + 1]
    /\ UNCHANGED <<evars, cb, px>>

\* the owner of the transport takes an error from Errors()
TakeError ==
    /\ Running
    /\ wr.errCh # << >>
    /\ wr' = [wr EXCEPT !.errCh = Tail(@), !.errs = Append(@, Head(wr.errCh))]
    /\ UNCHANGED <<evars, cb, px>>

InitLife ==
    /\ EnginesIdle
    /\ cb = CbInit
    /\ wr = LifeInit
    /\ px = PxInit

NextLife ==
    \/ TStart
    \/ ChildPrint
    \/ ChildStderr
    \/ ChildExit
    \/ TReadLoop
    \/ TSendLine
    \/ TReadStderr
    \/ TStderrEmit
    \/ TWaitLoop
    \/ TWaitEmit
    \/ TWaitClose
    \/ TWrite
    \/ TClose
    \/ TakeMessage
    \/ TakeError

SpecLife == InitLife /\ [][NextLife]_vars

(* ================= Stream.accumulate (partial messages) ================ *)
\* block types the Agent may declare in content_block_start; the last is
\* one handleStreamEvent has no case for
DeclaredTypes == {"text", "thinking", "tool_use", "redacted_thinking"}

\* pieces of text a delta may carry
Pieces == {"He", "llo"}

\* a content block of the accumulated message: its Go type and its text
\* (TextBlock.Text, ThinkingBlock.Thinking; empty for the others)
Block(t, txt) == [type |-> t, text |-> txt]

\* the delta type the Agent uses for a block of type t
DeltaTypeOf(t) ==
    CASE t = "text"     -> "text_delta"
      [] t = "thinking" -> "thinking_delta"
      [] OTHER          -> "input_json_delta"

\* handleStreamEvent, case "content_block_start": append by type, whatever
\* the declared index
BlockStart(content, t) ==
    IF t \in {"text", "thinking", "tool_use"} THEN Append(content, Block(t, "")) ELSE content

\* handleStreamEvent, case "content_block_delta": index is 0-based
BlockDelta(content, index, dtype, piece) ==
    IF index >= Len(content) THEN content
    ELSE LET block == content[index + 1] IN
         CASE dtype = "text_delta" /\ block.type = "text" ->
                  [content EXCEPT ![index + 1].text = @ \o piece]
           [] dtype = "thinking_delta" /\ block.type = "thinking" ->
                  [content EXCEPT ![index + 1].text = @ \o piece]
           [] OTHER -> content

\* newStream: nothing accumulated; the Agent has declared nothing
AccInit ==
    [pc |-> "acc",
     content |-> << >>,      \* s.assistant.Content
     declared |-> << >>,     \* the blocks of the Agent's current message
     messages |-> 0, events |-> 0,
     strays |-> 0,           \* deltas sent for no block, or of the wrong type
     returned |-> 0]         \* those of them Next has returned true for

\* the Agent starts a message: {"type":"message_start"}
AccMessageStart ==
    /\ px.pc = "acc"
    /\ px.messages < MaxMessages
    /\ px.events < MaxEvents
    /\ px' = [px EXCEPT !.declared = << >>, !.messages = @ + 1, !.events = @ + 1]
    /\ UNCHANGED <<evars, cb, wr>>

\* the Agent opens the next block of its message, declaring its index
AccBlockStart ==
    /\ px.pc = "acc"
    /\ px.messages > 0
    /\ px.events < MaxEvents
    /\ \E t \in DeclaredTypes :
         px' = [px EXCEPT !.declared = Append(@, Block(t, "")),
                          !.content = BlockStart(@, t),
                          !.events = @ + 1]
    /\ UNCHANGED <<evars, cb, wr>>

\* the Agent streams a piece of the block it opened last
AccBlockDelta ==
    /\ px.pc = "acc"
    /\ px.declared # << >>
    /\ px.events < MaxEvents
    /\ LET index == Len(px.declared) - 1
           t     == px.declared[index + 1].type
       IN  \E piece \in Pieces :
             px' = [px EXCEPT
                      !.declared[index + 1].text =
                          IF t \in {"text", "thinking"} THEN @ \o piece ELSE @,
                      !.content = BlockDelta(@, index, DeltaTypeOf(t), piece),
                      !.events = @ + 1]
    /\ UNCHANGED <<evars, cb, wr>>

\* delta types of content_block_delta; indexes a stray delta may carry
DeltaTypes == {"text_delta", "thinking_delta", "input_json_delta"}
StrayIndexes == (0 - 1)..MaxBlocks

\* s.assistant.Content[idx] after the check int(index) >= len(...): a
\* negative index passes the check and the indexing panics
DeltaPanics(content, index) == index < 0

\* the Agent sends a content_block_delta whose index names no accumulated
\* block, or whose type is not that of the block; Next stores it in
\* s.current, accumulates it and returns true
AccStrayDelta ==
    /\ px.pc = "acc"
    /\ px.events < MaxEvents
    /\ \E index \in StrayIndexes, dtype \in DeltaTypes, piece \in Pieces :
         /\ IF index < 0 \/ index >= Len(px.content) THEN TRUE
            ELSE DeltaTypeOf(px.content[index + 1].type) # dtype
         /\ IF DeltaPanics(px.content, index)
            THEN px' = [px EXCEPT !.pc = "panicked",
                                  !.strays = @ + 1, !.events = @ + 1]
            ELSE px' = [px EXCEPT !.content = BlockDelta(@, index, dtype, piece),
                                  !.returned = @ + 1,
                                  !.strays = @ + 1, !.events = @ + 1]
    /\ UNCHANGED <<evars, cb, wr>>

InitAcc ==
    /\ EnginesIdle
    /\ cb = CbInit
    /\ wr = WrInit
    /\ px = AccInit

NextAcc ==
    \/ AccMessageStart
    \/ AccBlockStart
    \/ AccBlockDelta
    \/ AccStrayDelta

SpecAcc == InitAcc /\ [][NextAcc]_vars

(* ===================== ParseMessage and its readers ==================== *)
\* JSON values as far as the parsers tell them apart
Absent == [k |-> "absent"]
Str(s) == [k |-> "string", s |-> s]
Arr(a) == [k |-> "array", a |-> a]
Obj(o) == [k |-> "object", o |-> o]

\* {"type": t, "text": txt}
RawBlock(t, txt) == [type |-> t, text |-> txt]

KnownBlockTypes == {"text", "thinking", "tool_use", "tool_result", "image"}

\* values of a "content" member: a plain string, arrays of typed blocks, one
\* of them with a block of a type the SDK does not know
Contents ==
    {Str("4"),
     Arr(<<RawBlock("text", "4")>>),
     Arr(<<RawBlock("tool_use", ""), RawBlock("text", "4")>>),
     Arr(<<RawBlock("server_tool_use", ""), RawBlock("text", "4")>>)}

SessionIds == {"s1", "s2"}

\* a line of the Agent's stdout, by the members the parsers look at
Line(t, role, content, message, sid, data) ==
    [type |-> t, role |-> role, content |-> content, message |-> message,
     session_id |-> sid, data |-> data]

\* {"type":"assistant","message":{"role":"assistant","content":...}}
WireMessage(t, c) == Line(t, "", Absent, Obj([role |-> t, content |-> c]), "", Absent)

\* {"type":"assistant","role":"assistant","content":...}
FlatMessage(t, c) == Line(t, t, c, Absent, "", Absent)

\* {"type":"result","session_id":"s1"}
WireResult(sid) == Line("result", "", Absent, Absent, sid, Absent)

\* {"type":"result","data":{"session_id":"s1"}}
DataResult(sid) == Line("result", "", Absent, Absent, "", Obj([session_id |-> sid]))

Lines ==
    {WireMessage(t, c) : t \in {"user", "assistant"}, c \in Contents}
    \cup {FlatMessage(t, c) : t \in {"user", "assistant"}, c \in Contents}
    \cup {WireResult(s) : s \in SessionIds}
    \cup {DataResult(s) : s \in SessionIds}

\* what ParseMessage returns
Parsed(kind, content, sid) == [kind |-> kind, content |-> content, sessionID |-> sid]
ParseFailed == Parsed("ParseError", << >>, "")

\* parser.go parseContentBlock: the known types; any other type becomes a
\* TextBlock naming it
parseContentBlockQ(b) ==
    IF b.type \in KnownBlockTypes
    THEN Block(b.type, b.text)
    ELSE Block("text", "[unknown block type: " \o b.type \o "]")

\* the older parseContentBlock: any other type becomes an empty TextBlock
parseContentBlockH(b) ==
    IF b.type \in KnownBlockTypes THEN Block(b.type, b.text) ELSE Block("text", "")

\* parser.go parseContent: an array of blocks, else a plain string
parseContent(c) ==
    CASE c.k = "array"  -> [j \in 1..Len(c.a) |-> parseContentBlockQ(c.a[j])]
      [] c.k = "string" -> <<Block("text", c.s)>>

\* parser.go ParseMessage: rawMessage takes type, content, data, ... from the
\* top level of the line
ParseMessageQ(l) ==
    CASE l.type \in {"user", "assistant"} ->
            Parsed(l.type,
                   IF l.content.k = "absent" THEN << >> ELSE parseContent(l.content), "")
      [] l.type = "result" ->
            Parsed("result", << >>,
                   IF l.data.k = "object" THEN l.data.o.session_id ELSE "")
      [] OTHER -> ParseFailed

\* the older ParseMessage: routed by the top-level role, then by type
ParseMessageH(l) ==
    CASE l.role = "user" ->
            (CASE l.content.k = "string" -> Parsed("user", <<Block("text", l.content.s)>>, "")
               [] l.content.k = "array" ->
                     Parsed("user", [j \in 1..Len(l.content.a) |->
                                        parseContentBlockH(l.content.a[j])], "")
               [] OTHER -> ParseFailed)
      [] l.role = "assistant" ->
            (CASE l.content.k = "array" ->
                     Parsed("assistant", [j \in 1..Len(l.content.a) |->
                                             parseContentBlockH(l.content.a[j])], "")
               [] l.content.k = "absent" -> Parsed("assistant", << >>, "")
               [] OTHER -> ParseFailed)
      [] l.type = "result" -> Parsed("result", << >>, l.session_id)
      [] OTHER -> Parsed("system", << >>, "")

ParseMessage(g, l) == IF g = "Q" THEN ParseMessageQ(l) ELSE ParseMessageH(l)

RECURSIVE TextOf(_)
\* AssistantMessage.Text(): the TextBlocks joined
TextOf(content) ==
    IF content = << >> THEN ""
    ELSE (IF Head(content).type = "text" THEN Head(content).text ELSE "")
            \o TextOf(Tail(content))

\* a connection of generation g about to read the lines of script
ParseStart(g, script, resumed) ==
    [pc |-> "parse", gen |-> g, script |-> script,
     seen |-> << >>,          \* the lines read so far
     parsed |-> << >>,        \* what ParseMessage made of each
     text |-> "",             \* CollectText so far
     result |-> ParseFailed,  \* Stream.Result(), once there is one
     hasResult |-> FALSE,
     sessionID |-> "",        \* Query.sessionID
     session |-> resumed]     \* Session.sessionID

\* one line goes through ParseMessage; Query.handleMessage tracks the session
\* id of a ResultMessage; the stream's reader collects text and the result.
\* Nothing assigns Session.sessionID.
ParseLine ==
    /\ px.pc = "parse"
    /\ px.script # << >>
    /\ LET l == Head(px.script)
           m == ParseMessage(px.gen, l)
       IN  px' = [px EXCEPT
                    !.script = Tail(@),
                    !.seen = Append(@, l),
                    !.parsed = Append(@, m),
                    !.text = IF m.kind = "assistant" THEN @ \o TextOf(m.content) ELSE @,
                    !.result = IF m.kind = "result" THEN m ELSE @,
                    !.hasResult = @ \/ m.kind = "result",
                    !.sessionID = IF m.kind = "result" /\ px.gen = "Q"
                                  THEN m.sessionID ELSE @]
    /\ UNCHANGED <<evars, cb, wr>>

InitParse ==
    /\ EnginesIdle
    /\ cb = CbInit
    /\ wr = WrInit
    /\ px \in {ParseStart(g, s, r) :
                 g \in Gens, s \in SeqUpTo(Lines, MaxScript), r \in {"", "s0"}}

NextParse == ParseLine

SpecParse == InitParse /\ [][NextParse]_vars

(* ========================== Client.Close =============================== *)
\* A client of generation g, its router, one outbound request and one
\* callback, as far as Close and cancellation reach them.
ShutdownInit(g) ==
    [pc |-> "shutdown", gen |-> g,
     ctxDone |-> FALSE,      \* the context the application gave to Connect
     mu |-> "none",          \* c.mu: free, or held by Connect or by Close
     connected |-> FALSE,
     connect |-> "idle",     \* Connect: idle, initWait, ok, failed
     initErr |-> "",
     close |-> "idle",       \* Close: idle, called, wait (wg.Wait), returned
     rootDone |-> FALSE,     \* H: doneCh is closed; Q: q.ctx is cancelled
     tClosed |-> FALSE,
     router |-> "off",       \* off, idle, callback, exited
     cbSawCancel |-> FALSE,
     req |-> "none",         \* sendControlRequest: none, waiting, or how it ended
     asked |-> 0,            \* control requests the Agent has sent
     connects |-> 0,         \* calls of Connect
     lastConnect |-> "",     \* what the last of them returned
     children |-> 0,         \* child processes started
     routers |-> 0]          \* router goroutines started

\* a Connect that does not look at the flag
NeverConnected(c) == FALSE
\* Connect: "if c.connected"
AlreadyConnected(c) == c.connected

\* Connect: c.mu.Lock(); ErrAlreadyConnected when connected; else transport
\* and router are started.  QueryHandler.Initialize then waits for the
\* response; Query.Initialize only writes.
SdConnect ==
    /\ px.pc = "shutdown"
    /\ px.mu = "none"
    /\ px.close = "idle"
    /\ px.connects < MaxConnects
    /\ px.connect \in {"idle", "ok"}
    /\ IF AlreadyConnected(px)
         THEN px' = [px EXCEPT !.connects = @ + 1, !.lastConnect = "ErrAlreadyConnected"]
         ELSE IF px.gen = "H"
         THEN px' = [px EXCEPT !.connects = @ + 1, !.lastConnect = "",
                               !.children = @ + 1, !.routers = @ + 1,
                               !.mu = "connect", !.connect = "initWait",
                               !.router = "idle"]
         ELSE px' = [px EXCEPT !.connects = @ + 1, !.lastConnect = "nil",
                               !.children = @ + 1, !.routers = @ + 1,
                               !.connect = "ok", !.connected = TRUE,
                               !.router = "idle"]
    /\ UNCHANGED <<evars, cb, wr>>

\* Initialize: case <-q.initResponseCh; Connect sets connected and returns
SdInitResponse ==
    /\ px.pc = "shutdown"
    /\ px.connect = "initWait"
    /\ px.router = "idle"
    /\ px' = [px EXCEPT !.connect = "ok", !.connected = TRUE, !.mu = "none",
                        !.lastConnect = "nil"]
    /\ UNCHANGED <<evars, cb, wr>>

\* Initialize: case <-time.After(30 * time.Second); Connect closes the
\* transport and returns the error
SdInitTimeout ==
    /\ px.pc = "shutdown"
    /\ px.connect = "initWait"
    /\ px' = [px EXCEPT !.connect = "failed", !.initErr = "timeout",
                        !.lastConnect = "timeout", !.tClosed = TRUE, !.mu = "none"]
    /\ UNCHANGED <<evars, cb, wr>>

\* Initialize: case <-ctx.Done()
SdInitCancelled ==
    /\ px.pc = "shutdown"
    /\ px.connect = "initWait"
    /\ px.ctxDone
    /\ px' = [px EXCEPT !.connect = "failed", !.initErr = "Canceled",
                        !.lastConnect = "Canceled", !.tClosed = TRUE, !.mu = "none"]
    /\ UNCHANGED <<evars, cb, wr>>

\* the application cancels the context it gave to Connect
SdCancelCtx ==
    /\ px.pc = "shutdown"
    /\ ~px.ctxDone
    /\ px.connect # "idle"
    /\ px.close = "idle"
    /\ px' = [px EXCEPT !.ctxDone = TRUE]
    /\ UNCHANGED <<evars, cb, wr>>

\* the application calls Close: the call is at c.mu.Lock()
SdCloseCall ==
    /\ px.pc = "shutdown"
    /\ px.close = "idle"
    /\ px.connect # "idle"
    /\ px' = [px EXCEPT !.close = "called"]
    /\ UNCHANGED <<evars, cb, wr>>

\* Close with c.mu: nothing unless connected; QueryHandler.Close closes
\* doneCh and returns; Query.Close cancels q.ctx and goes on to wg.Wait()
SdCloseRun ==
    /\ px.pc = "shutdown"
    /\ px.close = "called"
    /\ px.mu = "none"
    /\ IF ~px.connected
         THEN px' = [px EXCEPT !.close = "returned"]
         ELSE IF px.gen = "H"
         THEN px' = [px EXCEPT !.connected = FALSE, !.rootDone = TRUE,
                               !.tClosed = TRUE, !.close = "returned"]
         ELSE px' = [px EXCEPT !.connected = FALSE, !.rootDone = TRUE,
                               !.mu = "close", !.close = "wait"]
    /\ UNCHANGED <<evars, cb, wr>>

\* Query.Close: q.wg.Wait() returns once routeMessages has returned; the
\* channels and the transport are closed and Close returns
SdCloseWait ==
    /\ px.pc = "shutdown"
    /\ px.close = "wait"
    /\ px.router \in {"off", "exited"}
    /\ px' = [px EXCEPT !.tClosed = TRUE, !.mu = "none", !.close = "returned"]
    /\ UNCHANGED <<evars, cb, wr>>

\* the router takes a control request of the Agent and calls the user's
\* callback inline, with the ctx it was started with
SdCallbackStart ==
    /\ px.pc = "shutdown"
    /\ px.router = "idle"
    /\ px.asked < MaxCtl
    /\ ~px.tClosed
    /\ px' = [px EXCEPT !.router = "callback", !.asked = @ + 1]
    /\ UNCHANGED <<evars, cb, wr>>

\* the callback finds its ctx done and returns
SdCallbackCancelled ==
    /\ px.pc = "shutdown"
    /\ px.router = "callback"
    /\ px.ctxDone
    /\ px' = [px EXCEPT !.router = "idle", !.cbSawCancel = TRUE]
    /\ UNCHANGED <<evars, cb, wr>>

\* the callback returns of its own accord
SdCallbackReturn ==
    /\ px.pc = "shutdown"
    /\ px.router = "callback"
    /\ px' = [px EXCEPT !.router = "idle"]
    /\ UNCHANGED <<evars, cb, wr>>

\* processLoop: case <-ctx.Done() / <-q.doneCh; routeMessages: case
\* <-ctx.Done() / <-q.ctx.Done() / <-q.transport.Done()
SdRouterExit ==
    /\ px.pc = "shutdown"
    /\ px.router = "idle"
    /\ px.ctxDone \/ px.rootDone \/ (px.gen = "Q" /\ px.tClosed)
    /\ px' = [px EXCEPT !.router = "exited"]
    /\ UNCHANGED <<evars, cb, wr>>

\* sendControlRequest: registered and written, now in its select
SdRequest ==
    /\ px.pc = "shutdown"
    /\ px.gen = "Q"
    /\ px.connected
    /\ px.req = "none"
    /\ px' = [px EXCEPT !.req = "waiting"]
    /\ UNCHANGED <<evars, cb, wr>>

\* sendControlRequest: case resp := <-respCh / case <-time.After(timeout)
SdRequestAnswered ==
    /\ px.pc = "shutdown"
    /\ px.req = "waiting"
    /\ \E o \in {"response", "ErrTimeout"} : px' = [px EXCEPT !.req = o]
    /\ UNCHANGED <<evars, cb, wr>>

\* sendControlRequest: case <-ctx.Done() / case <-q.ctx.Done()
SdRequestCancelled ==
    /\ px.pc = "shutdown"
    /\ px.req = "waiting"
    /\ \/ px.ctxDone /\ px' = [px EXCEPT !.req = "Canceled"]
       \/ px.rootDone /\ px' = [px EXCEPT !.req = "ErrInterrupted"]
    /\ UNCHANGED <<evars, cb, wr>>

InitShutdown ==
    /\ EnginesIdle
    /\ cb = CbInit
    /\ wr = WrInit
    /\ px \in {ShutdownInit(g) : g \in Gens}

NextShutdown ==
    \/ SdConnect
    \/ SdInitResponse
    \/ SdInitTimeout
    \/ SdInitCancelled
    \/ SdCancelCtx
    \/ SdCloseCall
    \/ SdCloseRun
    \/ SdCloseWait
    \/ SdCallbackStart
    \/ SdCallbackCancelled
    \/ SdCallbackReturn
    \/ SdRouterExit
    \/ SdRequest
    \/ SdRequestAnswered
    \/ SdRequestCancelled

SpecShutdown == InitShutdown /\ [][NextShutdown]_vars

\* what the SDK does by itself is done in the end; timers, the Agent and the
\* user's callbacks are not relied on
FairSpecShutdown ==
    /\ SpecShutdown
    /\ WF_vars(SdCloseRun)
    /\ WF_vars(SdCloseWait)
    /\ WF_vars(SdRouterExit)
    /\ WF_vars(SdInitCancelled)
    /\ WF_vars(SdCallbackCancelled)
    /\ WF_vars(SdRequestCancelled)

(* ================ Query.routeMessages and its error channel ============ *)
\* lines the Agent prints while a Query routes them
RouteTypes == {"assistant", "result", "malformed", "control_cancel_request"}

\* ParseMessage: the error it returns for a line, None when it parses
ParseErrorOf(f) ==
    IF f.type = "malformed" THEN "ParseError: failed to parse message"
    ELSE IF f.type \in {"user", "assistant", "system", "result", "stream_event"} THEN None
    ELSE "ParseError: unknown message type: " \o f.type

\* select { case q.errCh <- err: default: }
TrySend(ch, cap, e) == IF Len(ch) < cap THEN Append(ch, e) ELSE ch

\* newQuery, started: open channels, nothing logged
RouteInit ==
    [pc |-> "route",
     inbound |-> <<>>,        \* transport.Messages()
     tErrs |-> <<>>,          \* transport.Errors()
     emitted |-> 0,
     msgCh |-> <<>>,
     errCh |-> <<>>,
     router |-> "idle",       \* idle, sendMsg (blocked on q.msgCh), exited
     hold |-> NoFrame,
     ctxDone |-> FALSE,
     stdin |-> <<>>,          \* lines written to the child
     log |-> <<>>,            \* lines logged by the router
     produced |-> <<>>,       \* errors the router read or produced
     msgTaken |-> 0,
     errTaken |-> <<>>]

\* the Agent prints a line
RtAgentEmit ==
    /\ px.pc = "route"
    /\ px.emitted < MaxRouteFrames
    /\ Len(px.inbound) < TransportBuf
    /\ \E t \in RouteTypes :
          px' = [px EXCEPT !.inbound = Append(@, Frame(t, px.emitted + 1, None, None)),
                           !.emitted = @ + 1]
    /\ UNCHANGED <<evars, cb, wr>>

\* the transport reports an error of its own
RtTransportErr ==
    /\ px.pc = "route"
    /\ Len(px.produced) + Len(px.tErrs) < MaxRouteErrs
    /\ Len(px.tErrs) < ErrorBuf
    /\ px' = [px EXCEPT !.tErrs = Append(@, "ProcessError")]
    /\ UNCHANGED <<evars, cb, wr>>

\* routeMessages: case err := <-q.transport.Errors()
RtRecvErr ==
    /\ px.pc = "route"
    /\ px.router = "idle"
    /\ px.tErrs # <<>>
    /\ px' = [px EXCEPT !.tErrs = Tail(@),
                        !.produced = Append(@, Head(px.tErrs)),
                        !.errCh = TrySend(@, ErrorBuf, Head(px.tErrs))]
    /\ UNCHANGED <<evars, cb, wr>>

\* routeMessages: case data := <-q.transport.Messages(); handleMessage
RtRecvFrame ==
    /\ px.pc = "route"
    /\ px.router = "idle"
    /\ px.inbound # <<>>
    /\ LET f == Head(px.inbound)
           e == ParseErrorOf(f) IN
       IF e # None
       THEN px' = [px EXCEPT !.inbound = Tail(@),
                             !.produced = Append(@, e),
                             !.errCh = TrySend(@, ErrorBuf, e)]
       ELSE IF Len(px.msgCh) < SessionBuf
       THEN px' = [px EXCEPT !.inbound = Tail(@), !.msgCh = Append(@, f)]
       ELSE px' = [px EXCEPT !.inbound = Tail(@), !.router = "sendMsg", !.hold = f]
    /\ UNCHANGED <<evars, cb, wr>>

\* handleMessage: case q.msgCh <- msg, once there is room
RtSendMsg ==
    /\ px.pc = "route"
    /\ px.router = "sendMsg"
    /\ Len(px.msgCh) < SessionBuf
    /\ px' = [px EXCEPT !.msgCh = Append(@, px.hold), !.hold = NoFrame, !.router = "idle"]
    /\ UNCHANGED <<evars, cb, wr>>

\* handleMessage: case <-q.ctx.Done(): the message is given up
RtSendAbort ==
    /\ px.pc = "route"
    /\ px.router = "sendMsg"
    /\ px.ctxDone
    /\ px' = [px EXCEPT !.hold = NoFrame, !.router = "idle"]
    /\ UNCHANGED <<evars, cb, wr>>

\* Query.Close: q.cancel()
RtCancel ==
    /\ px.pc = "route"
    /\ ~px.ctxDone
    /\ px' = [px EXCEPT !.ctxDone = TRUE]
    /\ UNCHANGED <<evars, cb, wr>>

\* routeMessages: case <-q.ctx.Done(): return
RtExit ==
    /\ px.pc = "route"
    /\ px.router = "idle"
    /\ px.ctxDone
    /\ px' = [px EXCEPT !.router = "exited"]
    /\ UNCHANGED <<evars, cb, wr>>

\* the application receives from Messages()
RtTakeMessage ==
    /\ px.pc = "route"
    /\ px.msgCh # <<>>
    /\ px' = [px EXCEPT !.msgCh = Tail(@), !.msgTaken = @ + 1]
    /\ UNCHANGED <<evars, cb, wr>>

\* the application receives from Errors()
RtTakeError ==
    /\ px.pc = "route"
    /\ px.errCh # <<>>
    /\ px' = [px EXCEPT !.errCh = Tail(@), !.errTaken = Append(@, Head(px.errCh))]
    /\ UNCHANGED <<evars, cb, wr>>

InitRoute ==
    /\ EnginesIdle
    /\ cb = CbInit
    /\ wr = WrInit
    /\ px = RouteInit

NextRoute ==
    \/ RtAgentEmit
    \/ RtTransportErr
    \/ RtRecvErr
    \/ RtRecvFrame
    \/ RtSendMsg
    \/ RtSendAbort
    \/ RtCancel
    \/ RtExit
    \/ RtTakeMessage
    \/ RtTakeError

SpecRoute == InitRoute /\ [][NextRoute]_vars

(* ============== Client.Query: the streams of one connection ============ *)
Prompts == 1..MaxSessions

\* what the Agent prints in answer to one prompt, in order
AnswerOf(n) == <<Frame("assistant", n, None, None), Frame("result", n, None, None)>>

\* a connected client: one handler, one session channel, no Query made yet
SessInit ==
    [pc |-> "sess",
     prompts |-> 0,                                   \* prompts written to stdin
     printed |-> [n \in Prompts |-> 0],               \* frames printed for prompt n
     msgCh |-> <<>>,                                  \* c.query.Messages()
     stream |-> [n \in Prompts |-> [st |-> "none", got |-> <<>>]]]

\* Client.Query: SendPrompt, then NewStream over c.query.Messages()
SsQuery ==
    /\ px.pc = "sess"
    /\ px.prompts < MaxSessions
    /\ px' = [px EXCEPT !.prompts = @ + 1,
                        !.stream[px.prompts + 1].st = "open"]
    /\ UNCHANGED <<evars, cb, wr>>

\* the Agent prints the next frame of its answer to the oldest prompt it
\* has not finished; the router parses it and sends it to the session channel
SsAnswer ==
    /\ px.pc = "sess"
    /\ Len(px.msgCh) < SessionDepth
    /\ \E n \in 1..px.prompts :
          /\ px.printed[n] < Len(AnswerOf(n))
          /\ \A k \in 1..(n - 1) : px.printed[k] = Len(AnswerOf(k))
          /\ px' = [px EXCEPT !.printed[n] = @ + 1,
                              !.msgCh = Append(@, AnswerOf(n)[px.printed[n] + 1])]
    /\ UNCHANGED <<evars, cb, wr>>

\* Stream.Next: case msg := <-s.msgCh; a ResultMessage ends the stream
SsNext(n) ==
    /\ px.pc = "sess"
    /\ px.stream[n].st = "open"
    /\ px.msgCh # <<>>
    /\ LET f == Head(px.msgCh) IN
       px' = [px EXCEPT !.msgCh = Tail(@),
                        !.stream[n].got = Append(@, f),
                        !.stream[n].st = IF f.type = "result" THEN "done" ELSE @]
    /\ UNCHANGED <<evars, cb, wr>>

\* Stream.Close: s.cancel(); the stream is done, the channel is left as it is
SsClose(n) ==
    /\ px.pc = "sess"
    /\ px.stream[n].st = "open"
    /\ px' = [px EXCEPT !.stream[n].st = "done"]
    /\ UNCHANGED <<evars, cb, wr>>

InitSess ==
    /\ EnginesIdle
    /\ cb = CbInit
    /\ wr = WrInit
    /\ px = SessInit

NextSess ==
    \/ SsQuery
    \/ SsAnswer
    \/ \E n \in Prompts : SsNext(n)
    \/ \E n \in Prompts : SsClose(n)

SpecSess == InitSess /\ [][NextSess]_vars

(* ========= QueryHandler.processLoop with an unread error channel ======= *)
\* lines the Agent prints to a handler whose errors nobody receives
ProgTypes == {"assistant", "malformed", "control_request"}

\* a started handler; the application receives messages only
ProgInit ==
    [pc |-> "prog",
     inbound |-> <<>>,       \* transport.Messages()
     emitted |-> 0,
     requests |-> 0,         \* control requests among the lines printed
     msgCh |-> <<>>,
     errCh |-> <<>>,         \* q.errCh: never received from
     router |-> "idle",      \* idle, sendErr, sendMsg
     hold |-> NoFrame,
     stdin |-> <<>>,         \* control responses written
     routed |-> 0,           \* lines processLoop is done with
     taken |-> 0]

\* the Agent prints a line
PgAgentEmit ==
    /\ px.pc = "prog"
    /\ px.emitted < MaxProgFrames
    /\ Len(px.inbound) < TransportBuf
    /\ \E t \in ProgTypes :
          px' = [px EXCEPT !.inbound = Append(@, Frame(t, px.emitted + 1,
                               IF t = "control_request" THEN "initialize" ELSE None, None)),
                           !.emitted = @ + 1,
                           !.requests = IF t = "control_request" THEN @ + 1 ELSE @]
    /\ UNCHANGED <<evars, cb, wr>>

\* processLoop: one line taken; q.errCh <- err and q.msgCh <- msg block
\* while their channel is full; a control request is answered inline
PgRecv ==
    /\ px.pc = "prog"
    /\ px.router = "idle"
    /\ px.inbound # <<>>
    /\ LET f == Head(px.inbound) IN
       IF f.type = "malformed"
       THEN IF Len(px.errCh) < ErrorBuf
            THEN px' = [px EXCEPT !.inbound = Tail(@), !.errCh = Append(@, "ParseError"),
                                  !.routed = @ + 1]
            ELSE px' = [px EXCEPT !.inbound = Tail(@), !.router = "sendErr", !.hold = f]
       ELSE IF f.type = "control_request"
       THEN px' = [px EXCEPT !.inbound = Tail(@), !.routed = @ + 1,
                             !.stdin = Written(@, Frame("control_response", f.id,
                                                        "success", "success:true"))]
       ELSE IF Len(px.msgCh) < SessionBuf
       THEN px' = [px EXCEPT !.inbound = Tail(@), !.msgCh = Append(@, f), !.routed = @ + 1]
       ELSE px' = [px EXCEPT !.inbound = Tail(@), !.router = "sendMsg", !.hold = f]
    /\ UNCHANGED <<evars, cb, wr>>

\* a blocked send completes once its channel has room
PgUnblock ==
    /\ px.pc = "prog"
    /\ \/ /\ px.router = "sendErr"
          /\ Len(px.errCh) < ErrorBuf
          /\ px' = [px EXCEPT !.errCh = Append(@, "ParseError"), !.router = "idle",
                              !.hold = NoFrame, !.routed = @ + 1]
       \/ /\ px.router = "sendMsg"
          /\ Len(px.msgCh) < SessionBuf
          /\ px' = [px EXCEPT !.msgCh = Append(@, px.hold), !.router = "idle",
                              !.hold = NoFrame, !.routed = @ + 1]
    /\ UNCHANGED <<evars, cb, wr>>

\* Receive / Session.Stream: the application takes a message
PgTakeMessage ==
    /\ px.pc = "prog"
    /\ px.msgCh # <<>>
    /\ px' = [px EXCEPT !.msgCh = Tail(@), !.taken = @ + 1]
    /\ UNCHANGED <<evars, cb, wr>>

InitProg ==
    /\ EnginesIdle
    /\ cb = CbInit
    /\ wr = WrInit
    /\ px = ProgInit

NextProg ==
    \/ PgAgentEmit
    \/ PgRecv
    \/ PgUnblock
    \/ PgTakeMessage

SpecProg == InitProg /\ [][NextProg]_vars

\* the router and the consumer of messages keep running; the Agent may stop
FairSpecProg ==
    SpecProg /\ WF_vars(PgRecv) /\ WF_vars(PgUnblock) /\ WF_vars(PgTakeMessage)

(* ======================= specification H =============================== *)
InitH ==
    /\ ctxDone = FALSE
    /\ client = ClientInit
    /\ transport = TransportInit
    /\ handler = HandlerInit
    /\ router = RouterInit
    /\ stream = StreamInit
    /\ stdin = <<>>
    /\ emitted = 0
    /\ recvLog = <<>>
    /\ handled = {}
    /\ taken = 0
    /\ prompts = 0
    /\ lastCall = None
    /\ stalled = FALSE
    /\ respSeen = {}
    /\ routed = 0
    /\ q = QueryInit
    /\ cb = CbInit
    /\ wr = WrInit
    /\ px = PxInit

NextH ==
    \/ ReadLoop
    \/ SendLine
    \/ WaitLoop
    \/ RouterRecv
    \/ RouterRecvClosed
    \/ RouterCtxDone
    \/ RouterDone
    \/ RouterTransportErr
    \/ RouterSendErr
    \/ RouterSendMsg
    \/ RouterSendAbort
    \/ CallbackReturn
    \/ ConnectStart
    \/ InitializeSetId
    \/ InitializeWrite
    \/ InitializeWait
    \/ ClientQuery
    \/ ClientClose
    \/ CancelCtx
    \/ StreamNext
    \/ StreamClose

SpecH == InitH /\ [][NextH]_vars

\* the child exits on its own with a non-zero status; cmd.Wait returns in
\* waitLoop
ChildCrash ==
    /\ transport.child = "alive"
    /\ transport' = [transport EXCEPT !.child = "exited"]
    /\ UNCHANGED <<ctxDone, client, handler, router, stream, stdin, emitted,
                   recvLog, handled, taken, prompts, lastCall, stalled, respSeen,
                   routed, q, cb, wr, px>>

\* generation H with an application that neither cancels nor closes, and a
\* child that may die at any moment
NextCrash ==
    \/ ReadLoop
    \/ SendLine
    \/ WaitLoop
    \/ RouterRecv
    \/ RouterRecvClosed
    \/ RouterTransportErr
    \/ RouterSendErr
    \/ RouterSendMsg
    \/ CallbackReturn
    \/ ConnectStart
    \/ InitializeSetId
    \/ InitializeWrite
    \/ InitializeWait
    \/ ClientQuery
    \/ StreamNext
    \/ ChildCrash

SpecCrash == InitH /\ [][NextCrash]_vars

\* Connect and what follows a failed one: no Query is made and no Stream
\* exists, so nothing receives from q.errCh and a send blocked on it stays blocked
NextConnect ==
    \/ ReadLoop
    \/ SendLine
    \/ WaitLoop
    \/ RouterRecv
    \/ RouterRecvClosed
    \/ RouterCtxDone
    \/ RouterDone
    \/ RouterTransportErr
    \/ RouterSendMsg
    \/ RouterSendAbort
    \/ CallbackReturn
    \/ ConnectStart
    \/ InitializeSetId
    \/ InitializeWrite
    \/ InitializeWait
    \/ ClientClose
    \/ CancelCtx

SpecConnect == InitH /\ [][NextConnect]_vars

\* the transport's tasks and the router keep running, and callbacks return
FairSpecConnect ==
    /\ SpecConnect
    /\ WF_vars(ReadLoop) /\ WF_vars(SendLine) /\ WF_vars(WaitLoop)
    /\ WF_vars(RouterRecv) /\ WF_vars(RouterRecvClosed) /\ WF_vars(RouterCtxDone)
    /\ WF_vars(RouterDone) /\ WF_vars(RouterTransportErr)
    /\ WF_vars(RouterSendMsg) /\ WF_vars(RouterSendAbort) /\ WF_vars(CallbackReturn)

(* ========================= properties, H =============================== *)
Indices(seq) == 1..Len(seq)
Last(seq) == seq[Len(seq)]

\* control responses written to stdin that echo request id i
ResponsesTo(i) ==
    {k \in Indices(stdin) : stdin[k].type = "control_response" /\ stdin[k].id = i}

TransportOpen == ~transport.closed /\ transport.child = "alive"

\* C1: every inbound control request whose handler has returned while the
\* transport is open has exactly one control_response on stdin echoing its
\* request_id, whatever its subtype and whatever the callback returned
C1_ExactlyOneResponse ==
    TransportOpen => \A r \in handled : Cardinality(ResponsesTo(r.id)) = 1

\* C3: Connect has succeeded, or a prompt frame is on stdin, only if the router
\* has handled the control_response carrying the id of the initialize request;
\* a Query made while not connected writes nothing
C3_HandshakeOrder ==
    /\ client.connected => InitId \in respSeen
    /\ (\E k \in Indices(stdin) : stdin[k].type = "user") => InitId \in respSeen
    /\ lastCall = "ErrNotConnected" => ~\E k \in Indices(stdin) : stdin[k].type = "user"

Terminal(s) ==
    /\ s.active
    /\ \/ s.err # None
       \/ s.delivered # <<>> /\ Last(s.delivered).type = "result"

\* C5: once a session is terminal, Current(), Result(), Err() and the delivery
\* history never change again, it stays done, and a Next() call returns false
C5_TerminalIsFinal ==
    [][(Terminal(stream) /\ stream'.sid = stream.sid) =>
          /\ stream'.done /\ stream.done
          /\ stream'.current = stream.current
          /\ stream'.result = stream.result
          /\ stream'.err = stream.err
          /\ stream'.delivered = stream.delivered
          /\ stream'.lastNext \in {stream.lastNext, "false"}]_vars

C5_Witness ==
    /\ Terminal(stream)
    /\ stream.result # NoFrame
    /\ stream.lastNext = "false"
    /\ handler.msgCh # <<>>

C7_CallbackDoesNotStopRouter ==
    (router.pc = "callback" /\ transport.msgCh # <<>>) => ENABLED RouterRecv

\* C9: a control request with an unknown subtype is answered with an error
\* envelope echoing its id, and it does not terminate the session
C9_UnknownSubtypeAnswered ==
    /\ TransportOpen =>
          \A r \in handled : r.sub = "unknown" =>
              \E k \in ResponsesTo(r.id) : stdin[k].sub = "error"
    /\ stream.err # "ProtocolError"

\* C10: a ParseError does not terminate the session
C10_ParseErrorNotTerminal ==
    ~(stream.done /\ stream.err = "ParseError")

\* the only request QueryHandler ever has outstanding: the initialize request,
\* from its write until Initialize returns
Outstanding(i) == client.pc = "initWait" /\ i = handler.initRequestID

\* C12: when the router handles a control_response whose request_id equals no
\* outstanding request, nothing changes: no waiter's channel is filled, nothing
\* is written to stdin and nothing reaches the session
C12_UnmatchedResponseDiscarded ==
    [][(/\ router.pc = "idle"
        /\ transport.msgCh # <<>>
        /\ Head(transport.msgCh).type = "control_response"
        /\ routed' = routed + 1
        /\ ~Outstanding(Head(transport.msgCh).id))
       => (handler' = handler /\ stdin' = stdin /\ recvLog' = recvLog)]_vars

\* C24: when the child exits abnormally while a session is streaming, the
\* session does not end looking like a normal completion: a stream that is
\* done without having delivered a ResultMessage has a non-nil Err().
C24_CrashSurfacesOnStream ==
    (/\ stream.active
     /\ stream.done
     /\ transport.child = "exited"
     /\ stream.result = NoFrame)
        => stream.err # None

(* ===================== properties, dispatch ============================ *)
\* the handler of a hook_callback has returned
HookEnded == cb.kind = "hook_callback" /\ cb.pc \in {"respond", "done"}

\* the k-th matcher applies to the input: its tool name is "*" or the input's
Applies(k) == cb.matchers[k].tool \in {"*", cb.tool}

\* the first applicable matcher whose callback returns Block or Stop, or one
\* past the last matcher
FirstStop ==
    LET S == {k \in Indices(cb.matchers) :
                 Applies(k) /\ cb.matchers[k].ret \in {"Block", "Stop"}}
    IN IF S = {} THEN Len(cb.matchers) + 1
       ELSE CHOOSE k \in S : \A j \in S : k <= j

\* C13: with callbacks that return Continue, Block or Stop, the callbacks
\* invoked are those of the applicable matchers, in registration order, up to
\* and including the first that returns Block or Stop; the reply is that
\* callback's result, and a reply that continues when there is none
C13_HookOrderFirstStopWins ==
    (/\ HookEnded
     /\ \A k \in Indices(cb.matchers) : cb.matchers[k].ret \in {"Continue", "Block", "Stop"})
    => /\ \A a, b \in Indices(cb.invoked) : a < b => cb.invoked[a] < cb.invoked[b]
       /\ {cb.invoked[a] : a \in Indices(cb.invoked)} =
             {k \in Indices(cb.matchers) : Applies(k) /\ k <= FirstStop}
       /\ cb.result.err = ""
       /\ IF FirstStop <= Len(cb.matchers)
          THEN /\ cb.result.payload.continue = "false"
               /\ cb.matchers[FirstStop].ret = "Block" =>
                     /\ cb.result.payload.decision = "block"
                     /\ cb.result.payload.reason = HookOutputOf("Block", FirstStop).Reason
               /\ cb.matchers[FirstStop].ret = "Stop" =>
                     cb.result.payload.stop_reason = HookOutputOf("Stop", FirstStop).StopReason
          ELSE /\ cb.result.payload.continue # "false"
               /\ cb.result.payload.decision = None

\* C14: when the callback that ended the dispatch returned an error, the
\* control_response written is a success envelope whose payload is
\* {continue: false, decision: "block", reason: <the error's message>}
C14_HookErrorIsBlock ==
    (/\ cb.kind = "hook_callback" /\ cb.pc = "done" /\ cb.reply.written
     /\ cb.invoked # <<>>
     /\ cb.matchers[Last(cb.invoked)].ret = "Error")
    => /\ cb.reply.envelope = "success"
       /\ cb.reply.payload.continue = "false"
       /\ cb.reply.payload.decision = "block"
       /\ cb.reply.payload.reason = HookErrorOf(Last(cb.invoked))

\* C15: when the callbacks invoked returned Continue or ModifyInput and at
\* least one returned ModifyInput(bytes), the reply is {continue: true,
\* modified_input: bytes}
C15_ModifiedInputReachesAgent ==
    (/\ HookEnded
     /\ \A a \in Indices(cb.invoked) :
           cb.matchers[cb.invoked[a]].ret \in {"Continue", "Modify"}
     /\ \E a \in Indices(cb.invoked) : cb.matchers[cb.invoked[a]].ret = "Modify")
    => /\ cb.result.payload.continue = "true"
       /\ cb.result.payload.modified_input \in
             {HookOutputOf("Modify", cb.invoked[a]).ModifiedInput :
                 a \in {b \in Indices(cb.invoked) :
                           cb.matchers[cb.invoked[b]].ret = "Modify"}}

\* C16: when the context was cancelled during the dispatch of a hook_callback,
\* a control_response is still written and it is a block with reason
\* "cancelled"
C16_CancelledHookIsBlocked ==
    (cb.kind = "hook_callback" /\ cb.pc = "done" /\ cb.cancelled)
    => /\ cb.reply.written
       /\ cb.reply.envelope = "success"
       /\ cb.reply.payload.continue = "false"
       /\ cb.reply.payload.decision = "block"
       /\ cb.reply.payload.reason = "cancelled"

\* the can_use_tool response tells the Agent that the tool may run
SaysAllowed ==
    IF cb.gen = "H" THEN cb.result.payload.allowed = "true"
    ELSE cb.result.payload.behavior = "allow"

\* C17: the can_use_tool response says allowed exactly when no decider is
\* configured or the decider returned an Allow, whose updated input is passed
\* on; for a Deny it says not allowed, with the Deny's message as the reason and
\* its interrupt flag
C17_AllowedIffAllow ==
    (cb.kind = "can_use_tool" /\ cb.pc \in {"respond", "done"})
    => /\ SaysAllowed <=>
             (cb.decider = "none" \/ cb.ret.type \in {"PermissionAllow", "*PermissionAllow"})
       /\ cb.ret.type \in {"PermissionAllow", "*PermissionAllow"} =>
             OmitEmpty(cb.ret.UpdatedInput) =
                IF cb.gen = "H" THEN cb.result.payload.updated_input
                ELSE cb.result.payload.updatedInput
       /\ cb.ret.type \in {"PermissionDeny", "*PermissionDeny"} =>
             /\ cb.ret.Message = IF cb.gen = "H" THEN cb.result.payload.reason
                                 ELSE cb.result.payload.message
             /\ cb.ret.Interrupt <=> cb.result.payload.interrupt = "true"

\* the request names a registered server, tools/call and a registered tool
CallsRegisteredTool ==
    /\ cb.kind = "mcp_message"
    /\ cb.server \in Servers
    /\ cb.method = "tools/call"
    /\ \E k \in Indices(ToolsOf(cb.server)) : ToolsOf(cb.server)[k] = cb.name

\* C18: a tools/call for a registered tool invokes exactly that tool's handler,
\* once; the reply is a success control_response whose payload carries the
\* handler's text as content, or for a handler error the error's message as
\* content with isError true - never an error payload or an error envelope
C18_ToolErrorIsResult ==
    (CallsRegisteredTool /\ cb.pc \in {"respond", "done"})
    => /\ cb.invoked = <<cb.name>>
       /\ cb.result.err = ""
       /\ cb.reply.written => cb.reply.envelope = "success"
       /\ cb.result.payload.error = NoError
       /\ IF cb.ret = "Error"
          THEN /\ cb.result.payload.result.content = TextContent("failed: " \o cb.name)
               /\ cb.result.payload.result.isError = "true"
          ELSE /\ cb.result.payload.result.content = TextContent("text of " \o cb.name)
               /\ cb.result.payload.result.isError # "true"

C18_Witness ==
    /\ CallsRegisteredTool
    /\ cb.pc = "done"
    /\ cb.reply.written
    /\ cb.ret = "Error"
    /\ cb.name = "echo"

\* C19: an mcp_message with an unsupported method, an unknown server or an
\* unknown tool invokes no handler and is answered, in a success envelope, with
\* an error payload {error: {code, message}} whose code is one of the JSON-RPC
\* codes
C19_UnknownMethodIsRpcError ==
    (/\ cb.kind = "mcp_message" /\ cb.pc \in {"respond", "done"}
     /\ \/ cb.server \notin Servers
        \/ cb.method \notin {"initialize", "tools/list", "tools/call"}
        \/ cb.method = "tools/call" /\ ~CallsRegisteredTool)
    => /\ cb.invoked = <<>>
       /\ cb.result.err = ""
       /\ cb.result.payload.error.code \in {-32700, -32600, -32601, -32602, -32603}
       /\ cb.result.payload.error.message # ""

(* ====================== properties, Write ============================== *)
RECURSIVE SplitLines(_, _, _)
\* the byte stream cut at each NL: <<complete lines, unterminated rest>>
SplitLines(s, lines, cur) ==
    IF s = << >> THEN <<lines, cur>>
    ELSE IF Head(s) = NL THEN SplitLines(Tail(s), Append(lines, cur), << >>)
    ELSE SplitLines(Tail(s), lines, Append(cur, Head(s)))

FrameIds == Writers \X (1..MaxWrites)

\* C20: concurrent Write calls never interleave: what the child's stdin has
\* received is a sequence of whole frames, each one complete line ended by
\* exactly one newline and each written once; the only unterminated bytes
\* are the beginning of the frame whose Write is in progress, or of the one
\* cut off when the child went away.
C20_FramesNeverInterleave ==
    wr.pc = "run" =>
      LET sp    == SplitLines(wr.pipe, << >>, << >>)
          lines == sp[1]
          rest  == sp[2]
      IN  /\ \A j \in 1..Len(lines) :
                \E f \in FrameIds : lines[j] = Body(f[1], f[2])
          /\ \A j, k \in 1..Len(lines) : lines[j] = lines[k] => j = k
          /\ rest # << >> =>
                \E f \in FrameIds :
                   /\ IsPrefix(rest, Body(f[1], f[2]))
                   /\ \A j \in 1..Len(lines) : lines[j] # Body(f[1], f[2])
                   /\ \/ /\ wr.w[f[1]].pc = "write"
                         /\ wr.w[f[1]].calls = f[2]
                         /\ wr.mu = f[1]
                      \/ wr.broken

\* a frame of one writer is whole on the pipe, a second writer is in the
\* middle of its frame, and a third waits for the mutex
C20_Witness ==
    /\ wr.pc = "run"
    /\ ~wr.broken
    /\ \E a, b, c \in Writers :
         /\ a # b /\ b # c /\ a # c
         /\ SplitLines(wr.pipe, << >>, << >>)[1] = <<Body(a, 1)>>
         /\ wr.w[a].data = Append(Body(a, 1), NL)
         /\ wr.w[b].pc = "write"
         /\ wr.w[b].pos > 0 /\ wr.w[b].pos < Len(wr.w[b].data)
         /\ wr.w[c].pc = "lock"

\* C21: after Close has returned every Write fails with the transport-closed
\* error and writes nothing: once closed is set no caller is inside the pipe
\* write, the bytes on the pipe never change again, and every Write that
\* returns, returns ErrStreamClosed.
C21_WriteAfterCloseFails ==
    [][(wr.pc = "run" /\ wr.closed) =>
          /\ wr'.pipe = wr.pipe
          /\ \A p \in Writers :
                /\ wr.w[p].pc # "write" /\ wr'.w[p].pc # "write"
                /\ (wr.w[p].pc = "lock" /\ wr'.w[p].pc = "idle") =>
                       wr'.w[p].err = "ErrStreamClosed"]_vars

\* Close ran after one frame had gone out; a Write that was waiting for the
\* mutex has since failed with ErrStreamClosed and another still waits
C21_Witness ==
    /\ wr.pc = "run"
    /\ wr.closed
    /\ wr.pipe # << >>
    /\ \E p, r \in Writers :
         /\ p # r
         /\ wr.w[p].pc = "idle" /\ wr.w[p].err = "ErrStreamClosed"
         /\ wr.w[p].data # << >>
         /\ wr.w[r].pc = "lock"

(* ==================== properties, transport lifecycle ================== *)
\* the transport is Closed: by Close, or by an abnormal exit of the child
IsClosedState == wr.closed \/ (wr.child = "exited" /\ wr.code # 0)

\* C22: the lifecycle never moves backwards: once the transport is Closed,
\* by Close() or by abnormal child exit, no Start gives it a running child
\* again, every Write fails with the transport-closed error, and no frame of
\* a later child reaches Messages().
C22_LifecycleOneWay ==
    [][(wr.pc = "life" /\ IsClosedState) =>
          /\ wr'.child # "alive"
          /\ wr'.writes # wr.writes => wr'.lastWrite = "ErrStreamClosed"
          /\ ~wr'.lateFrame]_vars

\* the errors on the error channel and those already taken from it
Surfaced == {wr.errCh[i] : i \in 1..Len(wr.errCh)} \cup {wr.errs[i] : i \in 1..Len(wr.errs)}

\* C23: a ProcessError is surfaced if and only if the child exited with a
\* non-zero status, and it carries the exit code and the stderr accumulated
\* so far; stderr of a child that exits with status 0 gives no ProcessError.
\* (Stated for the child of the first Start; the "if" part for a transport
\* that has not been closed and whose waiter has finished.)
C23_ProcessErrorIffNonZeroExit ==
    (wr.pc = "life" /\ wr.starts = 1) =>
        /\ \A e \in Surfaced :
              /\ wr.child = "exited" /\ wr.code # 0
              /\ e.code = wr.code
              /\ e.stderr = wr.errLines
        /\ (wr.child = "exited" /\ wr.code # 0 /\ ~wr.closed /\ wr.waitTask = "done")
              => Surfaced # {}

(* ===================== properties, accumulation ======================== *)
\* C25: partial-message accumulation keeps block indices: the block the
\* Agent declared at index i, with the deltas streamed for it so far, is the
\* block at position i of Message().
C25_BlocksKeepTheirIndex ==
    px.pc = "acc" =>
      \A i \in 1..Len(px.declared) :
         /\ i <= Len(px.content)
         /\ px.content[i].text = px.declared[i].text
         /\ px.declared[i].type \in {"text", "thinking", "tool_use"} =>
               px.content[i].type = px.declared[i].type

(* ========================= properties, parsing ========================= *)
\* the blocks a "content" value stands for: a plain string is one Text
\* block; an array gives one block per element, those of a known type with
\* their type and text
ContentMatches(blocks, c) ==
    CASE c.k = "string" -> blocks = <<Block("text", c.s)>>
      [] c.k = "array"  ->
            /\ Len(blocks) = Len(c.a)
            /\ \A j \in 1..Len(c.a) :
                  c.a[j].type \in KnownBlockTypes => blocks[j] = Block(c.a[j].type, c.a[j].text)
      [] OTHER -> blocks = << >>

\* C26: a user/assistant frame in the wire shape, with the payload under a
\* nested "message" object, parses to a UserMessage/AssistantMessage whose
\* content blocks are those of message.content; hence assistant(text "4")
\* followed by result(session_id "s1") gives CollectText() = "4" and
\* Result().SessionID = "s1".
C26_NestedMessageContent ==
    px.pc = "parse" =>
      /\ \A i \in 1..Len(px.seen) :
            px.seen[i].message.k = "object" =>
               /\ px.parsed[i].kind = px.seen[i].type
               /\ ContentMatches(px.parsed[i].content, px.seen[i].message.o.content)
      /\ px.seen = <<WireMessage("assistant", Arr(<<RawBlock("text", "4")>>)),
                     WireResult("s1")>>
            => /\ px.text = "4"
               /\ px.hasResult
               /\ px.result.sessionID = "s1"

\* the text names the unknown type t
HasUnknownMarker(text, t) ==
    text \in {"unknown:" \o t, "[unknown block type: " \o t \o "]"}

\* C27: parsing a content block of a type that is not text, thinking,
\* tool_use, tool_result or image never fails: the message is parsed, the
\* block becomes a Text block whose text is a marker naming the unknown type,
\* and the other blocks are parsed normally.  (Stated on frames that carry
\* their content where the parser reads it.)
C27_UnknownBlockIsMarkedText ==
    px.pc = "parse" =>
      \A i \in 1..Len(px.seen) :
         (px.seen[i].message.k = "absent" /\ px.seen[i].content.k = "array") =>
            LET a == px.seen[i].content.a
                b == px.parsed[i].content
            IN  /\ px.parsed[i].kind = px.seen[i].type
                /\ Len(b) = Len(a)
                /\ \A j \in 1..Len(a) :
                      IF a[j].type \in KnownBlockTypes
                      THEN b[j] = Block(a[j].type, a[j].text)
                      ELSE b[j].type = "text" /\ HasUnknownMarker(b[j].text, a[j].type)

\* the session_id a result line carries
CarriedSid(l) ==
    IF l.session_id # "" THEN l.session_id
    ELSE IF l.data.k = "object" THEN l.data.o.session_id ELSE ""

RECURSIVE LastSid(_)
\* the session_id of the most recent result line, "" when there is none
LastSid(seen) ==
    IF seen = << >> THEN ""
    ELSE IF seen[Len(seen)].type = "result" THEN CarriedSid(seen[Len(seen)])
    ELSE LastSid(SubSeq(seen, 1, Len(seen) - 1))

\* C30: SessionID() returns the session_id of the most recent ResultMessage
\* received on the connection, and is empty before any has been received
\* (a resumed Session may report the id it was resumed with until then).
C30_SessionIdIsLastResult ==
    (px.pc = "parse" /\ px.gen = "Q") =>
        /\ px.sessionID = LastSid(px.seen)
        /\ (\E i \in 1..Len(px.seen) : px.seen[i].type = "result")
              => px.session = LastSid(px.seen)

(* ========================= properties, Close =========================== *)
\* C28: after Client.Close() is called the router terminates (so a callback
\* in flight has seen the cancellation and returned), no initialization wait
\* and no outbound control request is left waiting for its timeout, and
\* Close returns.
C28_CloseCancelsEverything ==
    (px.pc = "shutdown" /\ px.close = "called")
        ~> (/\ px.close = "returned"
            /\ px.router \in {"off", "exited"}
            /\ px.connect # "initWait"
            /\ px.req # "waiting")

\* C29: Connect on a connected client fails with ErrAlreadyConnected and
\* changes nothing: no second child, no second router, and the connection
\* is as it was.
C29_SecondConnectChangesNothing ==
    [][(px.pc = "shutdown" /\ px.connected /\ px'.connects # px.connects) =>
          /\ px'.lastConnect = "ErrAlreadyConnected"
          /\ px' = [px EXCEPT !.connects = px'.connects,
                              !.lastConnect = "ErrAlreadyConnected"]
          /\ px'.children = 1 /\ px'.routers = 1]_vars

\* a second Connect was refused while the router was busy with a callback
\* and a control request was outstanding, and the connection is still up
C29_Witness ==
    /\ px.pc = "shutdown"
    /\ px.connects = 2
    /\ px.lastConnect = "ErrAlreadyConnected"
    /\ px.connected
    /\ px.children = 1
    /\ px.router = "callback"
    /\ px.req = "waiting"

(* ========================= properties, routing ========================= *)
\* C31: a control_cancel_request taken by the router writes nothing, delivers
\* nothing to the session, surfaces no error and leaves the router running.
C31_CancelRequestIsSilent ==
    [][(/\ px.pc = "route"
        /\ px.inbound # <<>>
        /\ Head(px.inbound).type = "control_cancel_request"
        /\ px'.inbound = Tail(px.inbound)) =>
          /\ px'.stdin = px.stdin
          /\ px'.msgCh = px.msgCh
          /\ px'.errCh = px.errCh
          /\ px'.router = "idle"]_vars

\* C35: every error the router read from the transport or produced while
\* parsing is in the error channel, was received from it, or was logged.
C35_NoSilentDrop ==
    px.pc = "route" =>
        Len(px.produced) = Len(px.errCh) + Len(px.errTaken) + Len(px.log)

(* ========================= properties, sessions ======================== *)
\* C32: a stream delivers only frames that answer its own prompt, and no two
\* streams are open on the session channel at once.
C32_SessionSeesOnlyItsAnswer ==
    px.pc = "sess" =>
        /\ \A n \in Prompts : \A k \in 1..Len(px.stream[n].got) :
               px.stream[n].got[k].id = n
        /\ \A n, m \in Prompts :
               (px.stream[n].st = "open" /\ px.stream[m].st = "open") => n = m

(* ========================= properties, Q =============================== *)
\* what a caller of sendControlRequest may hold: nothing before it returns;
\* afterwards one payload whose request id is the call's own, or one error,
\* which is the timeout unless a context was cancelled or the write failed
OutcomeOK(c) ==
    LET call == q.call[c] IN
    /\ call.pc # "returned" => call.out = NoOutcome
    /\ call.pc = "returned" =>
          /\ call.out.kind \in {"response", "ErrTimeout", "Canceled",
                                "ErrInterrupted", "WriteError"}
          /\ call.out.kind = "response" => call.out.id = call.id
          /\ call.out.kind = "Canceled" => q.callerCtxDone
          /\ call.out.kind = "ErrInterrupted" => q.ctxDone
          /\ call.out.kind = "WriteError" => q.tClosed
          /\ (~q.callerCtxDone /\ ~q.ctxDone /\ ~q.tClosed) =>
                call.out.kind \in {"response", "ErrTimeout"}

\* C2: every sendControlRequest call completes with exactly one outcome, the
\* payload of a control_response carrying the call's request id or the timeout
\* error (with no context cancelled and the transport open), never both and
\* never neither: the outcome is set once, never changes, and a waiting call
\* always returns - under every interleaving of responses, duplicates and timer
C2_ExactlyOneOutcome ==
    /\ [](\A c \in Callers : OutcomeOK(c))
    /\ [][\A c \in Callers :
             q.call[c].pc = "returned" => q'.call[c].out = q.call[c].out]_vars
    /\ \A c \in Callers :
          (q.call[c].pc = "waiting") ~> (q.call[c].pc = "returned" \/ q.panicked)

\* one call timed out although its response had arrived, another got its
\* response, with no cancellation and the transport open
C2_Witness ==
    /\ ~q.callerCtxDone /\ ~q.ctxDone /\ ~q.tClosed
    /\ \E c, d \in Callers :
          /\ q.call[c].pc = "returned" /\ q.call[c].out.kind = "ErrTimeout"
          /\ q.call[c].ch # <<>>
          /\ q.call[d].pc = "returned" /\ q.call[d].out.kind = "response"

\* C11: every control request the SDK has written (initialize, interrupt,
\* set_permission_mode, set_model) carries a request_id, and no two of them
\* carry the same one
C11_RequestIdsUnique ==
    \A k \in Indices(q.stdin) :
        q.stdin[k].sub \in {"initialize", "interrupt", "set_permission_mode", "set_model"} =>
            /\ q.stdin[k].id # ""
            /\ \A j \in Indices(q.stdin) : j # k => q.stdin[j].id # q.stdin[k].id

\* C8: Close is idempotent: however many times Query.Close is called, in
\* sequence or concurrently, no call panics
C8_CloseNeverPanics == ~q.panicked

SerialOf(id) == CHOOSE n \in 1..MaxFrames : ToString(n) = id

C36_InitNeedsMatchingResponse ==
    [][(~client.connected /\ client'.connected) => InitId \in respSeen]_vars

\* C37: the reader never sends on the inbound channel after the waiter has
\* closed it (stated for a transport started once, where the only close of
\* the channel is the waiter's).
C37_NoSendOnClosedChannel ==
    ~(wr.pc = "life" /\ wr.starts = 1 /\ wr.readTask = "send" /\ wr.panicked)

\* C38: with an application that receives messages only, every line the
\* Agent printed is eventually processed by the router and every control
\* request is eventually answered.
C38_RouterProgress ==
    \A n \in 1..MaxProgFrames :
        (px.pc = "prog" /\ px.emitted >= n) ~>
            (/\ px.routed >= n
             /\ (px.emitted = px.routed => Len(px.stdin) = px.requests))

\* C39: a failed Connect leaves the client not connected and the transport,
\* if it was started, closed, and the router it started stops.
C39_FailedConnectCleansUp ==
    /\ [](client.pc = "failed" =>
            (~client.connected /\ (transport.child # "none" => transport.closed)))
    /\ (client.pc = "failed") ~> (router.pc \in {"off", "exited"})

\* C40: a content_block_delta whose index is out of range, or whose type is
\* not that of the block at its index, leaves the accumulated message as it
\* was, does not end the stream, and is what Current() returns.
C40_StrayDeltaChangesNothing ==
    [][(px.pc = "acc" /\ px'.strays # px.strays) =>
          /\ px'.pc = "acc"
          /\ px'.content = px.content
          /\ px'.returned = px.returned + 1]_vars

====
